---- MODULE Spec2Model ----
(***************************************************************************)
(* Secondary stats indices: IndexMatcher variants, StatsIndex<T>, and the  *)
(* IndexedStatsStore registry that keeps named gauge / counter indices in  *)
(* step with metric creation and deletion.                                 *)
(*                                                                         *)
(* Spec      every handler runs to completion (one caller at a time).      *)
(* SpecConc  handlers of several threads interleave at their mutex         *)
(*           acquisitions (registry mutex_, per-index mutex_).             *)
(* SpecLookup   the registry's lookup, removal and count operations.       *)
(* SpecLocks    the registry's and the indices' mutexes, held by threads.  *)
(* SpecFanOut   a creation and a deletion notification of one gauge.       *)
(* SpecRegistry registration, removal and iteration of the mapping.        *)
(* SpecAgg      the aggregations of one AggregatedStatsIndex.              *)
(* SpecAverage  average() of an AggregatedStatsIndex, step by step.        *)
(* SpecMatch    the matcher variants on names and encoded names.           *)
(* SpecFactory  StatsIndexFactory turning configurations into indices.     *)
(* SpecStringMatch  the matchers the factory makes of exact / contains.    *)
(* SpecMonitor  IdleActivityMonitor reporting pressure from request counts.*)
(* SpecReader   ActivityStatsReaderImpl reading the counts from the stats.  *)
(***************************************************************************)
EXTENDS Integers, Sequences, FiniteSets, TLC

\* ------------------------------------------------------------------ bounds
MaxGauges == 2
MaxCounters == 1
\* Metric values are unsigned integers of Width bits (64 in the code).
Width == 3
\* The monotonic clock is followed for this many seconds.
MaxSeconds == 3

\* ------------------------------------------------------------ metric names
\* A name is a sequence of one-character strings.
NamePool ==
  << <<"a", ".", "y">>, <<"b", ".", "x">>, <<"a", ".", "x">>, <<"c">> >>

Gauges == {<<"G", i>> : i \in 1..MaxGauges}
Counters == {<<"C", i>> : i \in 1..MaxCounters}
NoMetric == <<"none", 0>>

\* Metric::name(): immutable after creation.  Gauge i and counter i-1 share a
\* name, so one name can live in both kinds.
name(m) ==
  IF m[1] = "G" THEN NamePool[((m[2] - 1) % Len(NamePool)) + 1]
  ELSE NamePool[(m[2] % Len(NamePool)) + 1]

\* StatName: the name split into its '.'-separated tokens (the encoded form),
\* and SymbolTable::toString joining the tokens with '.'.
RECURSIVE SplitFrom(_, _, _)
SplitFrom(n, i, cur) ==
  IF i > Len(n) THEN <<cur>>
  ELSE IF n[i] = "." THEN <<cur>> \o SplitFrom(n, i + 1, <<>>)
  ELSE SplitFrom(n, i + 1, Append(cur, n[i]))

statName(m) == SplitFrom(name(m), 1, <<>>)

RECURSIVE toString(_)
toString(tokens) ==
  IF Len(tokens) = 0 THEN <<>>
  ELSE IF Len(tokens) = 1 THEN tokens[1]
  ELSE tokens[1] \o <<".">> \o toString(Tail(tokens))

\* ---------------------------------------------------------------- matchers
PrefixSuffixIndexMatcher(p, s) ==
  [type |-> "PrefixSuffix", prefix_ |-> p, suffix_ |-> s]
OrIndexMatcher(ms) == [type |-> "Or", matchers_ |-> ms]

StartsWith(n, p) == Len(n) >= Len(p) /\ SubSeq(n, 1, Len(p)) = p
EndsWith(n, s) ==
  Len(n) >= Len(s) /\ SubSeq(n, Len(n) - Len(s) + 1, Len(n)) = s

\* Mutant: the suffix is looked for behind the prefix only.
PrefixSuffixMatchesNoOverlap(M, n) ==
  IF M.prefix_ # <<>> /\ ~StartsWith(n, M.prefix_) THEN FALSE
  ELSE IF M.suffix_ # <<>> /\ ~EndsWith(n, M.suffix_) THEN FALSE
  ELSE Len(n) >= Len(M.prefix_) + Len(M.suffix_)
PrefixSuffixMatches(M, n) ==
  IF M.prefix_ # <<>> /\ ~StartsWith(n, M.prefix_) THEN FALSE
  ELSE IF M.suffix_ # <<>> /\ ~EndsWith(n, M.suffix_) THEN FALSE
  ELSE TRUE

\* RegexIndexMatcher: regex_ is the pattern compiled by the regex engine.  The
\* engine is modelled for the patterns used here: characters, '\' escapes,
\* '.', a postfix '*', and the anchors '^' and '$'; a '*' with nothing to
\* repeat and a '(' that is never closed do not compile.
RegexIndexMatcher(p) == [type |-> "Regex", pattern_ |-> p]
Escape == "\\"
parseStdRegex(p) ==
  LET Unescaped(i) == i = 1 \/ p[i - 1] # Escape
  IN /\ p = <<>> \/ p[1] # "*"
     /\ \A i \in 1..Len(p) :
          (p[i] = "(" /\ Unescaped(i)) => \E k \in (i + 1)..Len(p) : p[k] = ")"
     /\ p = <<>> \/ p[Len(p)] # Escape \/ ~Unescaped(Len(p))
AtomEnd(p, i) == IF p[i] = Escape THEN i + 2 ELSE i + 1
AtomMatches(p, i, c) ==
  IF p[i] = Escape THEN c = p[i + 1]
  ELSE IF p[i] = "." THEN TRUE
  ELSE c = p[i]
\* regex_match: the whole of n from position j on against p from i on.
RECURSIVE RegexMatchFrom(_, _, _, _)
RegexMatchFrom(p, i, n, j) ==
  IF i > Len(p) THEN j > Len(n)
  ELSE IF p[i] = "^" THEN j = 1 /\ RegexMatchFrom(p, i + 1, n, j)
  ELSE IF p[i] = "$" THEN j = Len(n) + 1 /\ RegexMatchFrom(p, i + 1, n, j)
  ELSE IF AtomEnd(p, i) <= Len(p) /\ p[AtomEnd(p, i)] = "*"
  THEN \/ RegexMatchFrom(p, AtomEnd(p, i) + 1, n, j)
       \/ /\ j <= Len(n) /\ AtomMatches(p, i, n[j])
          /\ RegexMatchFrom(p, i, n, j + 1)
  ELSE /\ j <= Len(n) /\ AtomMatches(p, i, n[j])
       /\ RegexMatchFrom(p, AtomEnd(p, i), n, j + 1)
RegexMatches(M, n) == RegexMatchFrom(M.pattern_, 1, n, 1)

RECURSIVE matches(_, _)
\* Mutant: the loop returns at the first child whatever it says.
OrMatchesFromFirstOnly(ms, n, i) ==
  IF i > Len(ms) THEN FALSE ELSE matches(ms[i], n)
RECURSIVE OrMatchesFrom(_, _, _)
OrMatchesFrom(ms, n, i) ==
  IF i > Len(ms) THEN FALSE
  ELSE IF matches(ms[i], n) THEN TRUE
  ELSE OrMatchesFrom(ms, n, i + 1)

matches(M, n) ==
  IF M.type = "PrefixSuffix" THEN PrefixSuffixMatches(M, n)
  ELSE IF M.type = "Regex" THEN RegexMatches(M, n)
  ELSE OrMatchesFrom(M.matchers_, n, 1)

RECURSIVE matchesStatName(_, _)
RECURSIVE OrMatchesStatNameFrom(_, _, _)
OrMatchesStatNameFrom(ms, sn, i) ==
  IF i > Len(ms) THEN FALSE
  ELSE IF matchesStatName(ms[i], sn) THEN TRUE
  ELSE OrMatchesStatNameFrom(ms, sn, i + 1)

\* Mutant: the encoded name is matched by its first token.
matchesStatNameFirstToken(M, sn) == matches(M, sn[1])
\* PrefixSuffix decodes the name itself, Regex inherits the default
\* IndexMatcher::matchesStatName, Or asks its children on the encoded name.
matchesStatName(M, sn) ==
  IF M.type \in {"PrefixSuffix", "Regex"} THEN matches(M, toString(sn))
  ELSE OrMatchesStatNameFrom(M.matchers_, sn, 1)

\* The matchers registrations are tried with.
MatcherInputs ==
  { PrefixSuffixIndexMatcher(<<"a", ".">>, <<>>),
    OrIndexMatcher(<< PrefixSuffixIndexMatcher(<<"b">>, <<>>),
                      PrefixSuffixIndexMatcher(<<>>, <<"y">>) >>) }

\* ------------------------------------------------------------------- state
\* Index names (strings in the code) are numbered; the gauge partition is
\* tried with two names, the counter partition with the first of them.
IndexNames == {1, 2}
CounterIndexNames == {1}
\* The empty slot of a partition (flat_hash_map has no entry for the name).
NoIndex == [id |-> 0]
NoMatcher == [type |-> "none"]
Threads == {1, 2}

VARIABLES
  gauges,            \* gauges alive in the base store
  counters,          \* counters alive in the base store
  gauge_indices_,    \* IndexedStatsStore::gauge_indices_   : name -> index
  counter_indices_,  \* IndexedStatsStore::counter_indices_ : name -> index
  panicked,          \* a PANIC has terminated the process
  last,              \* Spec: the call that ran last, and what it returned
  pc,                \* SpecConc: where each thread is in its call
  mutex_,            \* IndexedStatsStore::mutex_: the thread holding it, or 0
  index_mutex_,      \* StatsIndex::mutex_ of each gauge index: its holder, or 0
  value,             \* Gauge::value() of each gauge
  agg,               \* an AggregatedGaugeIndex a caller constructed
  agg_mutex_,        \* its StatsIndex::mutex_: the thread holding it, or 0
  monitor,           \* an IdleActivityMonitor the overload manager constructed
  clock,             \* TimeSource::monotonicTime(), in microseconds
  stats_reader,      \* an ActivityStatsReaderImpl
  root_store         \* api_.rootScope().store(): the value of each gauge in it

vars ==
  <<gauges, counters, gauge_indices_, counter_indices_, panicked, last, pc,
    mutex_, index_mutex_, value, agg, agg_mutex_, monitor, clock,
    stats_reader, root_store>>

\* -------------------------------------------------------- StatsIndex<T>
\* metrics_set_ is kept as the sequence of the hash set's occupied slots, in
\* bucket order (here: the order of the metrics' addresses).
Members(s) == {s[i] : i \in 1..Len(s)}
Bucket(m) == m[2]
InsertAt(s, m) ==
  SelectSeq(s, LAMBDA x : Bucket(x) < Bucket(m)) \o <<m>> \o
  SelectSeq(s, LAMBDA x : Bucket(x) >= Bucket(m))
\* Mutant: the slot is filled without looking for the element.
InsertNoLookup(s, m) == InsertAt(s, m)
\* flat_hash_set::insert: no effect when the element is already present.
Insert(s, m) == IF m \in Members(s) THEN s ELSE InsertAt(s, m)
\* flat_hash_set::erase
Erase(s, m) == SelectSeq(s, LAMBDA x : x # m)

StatsIndex(id, n, M) ==
  [id |-> id, name_ |-> n, matcher_ |-> M, metrics_set_ |-> <<>>]

\* Mutant: the early return on a failed match is missing.
tryAddNoReturn(idx, m) == [idx EXCEPT !.metrics_set_ = Insert(@, m)]
tryAdd(idx, m) ==
  IF ~matches(idx.matcher_, name(m)) THEN idx
  ELSE [idx EXCEPT !.metrics_set_ = Insert(@, m)]
tryAddResult(idx, m) == matches(idx.matcher_, name(m))

\* Mutant: the match is tested the wrong way round.
tryAddWithStatNameInverted(idx, m) ==
  IF matchesStatName(idx.matcher_, statName(m)) THEN idx
  ELSE [idx EXCEPT !.metrics_set_ = Insert(@, m)]
tryAddWithStatName(idx, m) ==
  IF ~matchesStatName(idx.matcher_, statName(m)) THEN idx
  ELSE [idx EXCEPT !.metrics_set_ = Insert(@, m)]
tryAddWithStatNameResult(idx, m) == matchesStatName(idx.matcher_, statName(m))

\* Mutant: the whole set is emptied instead of one element erased.
removeAll(idx, m) == [idx EXCEPT !.metrics_set_ = <<>>]
remove(idx, m) == [idx EXCEPT !.metrics_set_ = Erase(@, m)]
\* Mutant: the set is swapped with its first element's singleton.
clearToFirst(idx) ==
  [idx EXCEPT !.metrics_set_ = IF @ = <<>> THEN <<>> ELSE <<Head(@)>>]
clear(idx) == [idx EXCEPT !.metrics_set_ = <<>>]
size(idx) == Len(idx.metrics_set_)
empty(idx) == idx.metrics_set_ = <<>>

\* ---------------------------------------------------- IndexedStatsStore
\* std::make_unique: storage that no other live index occupies.
NewId(k, n) == IF k = "gauge" THEN n ELSE Cardinality(IndexNames) + n

\* Mutant: the lookup never finds the name.
ExistsNever(map, n) == FALSE
\* find(name) != end()
Exists(map, n) == map[n] # NoIndex
\* Mutant: operator[] assignment, which replaces the entry.
\* emplace(name, index): keeps the entry a name already has.
Emplace(map, n, idx) == IF map[n] # NoIndex THEN map ELSE [map EXCEPT ![n] = idx]
\* Mutant: the entry is not erased.
EraseIndexKeeps(map, n) == map
\* erase(name)
EraseIndex(map, n) == [map EXCEPT ![n] = NoIndex]

\* Mutant: the scan stops after the first metric.
BackfillFirstOnly(idx, ms) ==
  IF ms = {} THEN idx ELSE tryAdd(idx, CHOOSE x \in ms : TRUE)
\* forEachGauge / forEachCounter of the base store driving index.tryAdd
RECURSIVE Backfill(_, _)
Backfill(idx, ms) ==
  IF ms = {} THEN idx
  ELSE LET m == CHOOSE x \in ms : TRUE
       IN Backfill(tryAdd(idx, m), ms \ {m})

\* Mutant: the loop stops at the first index that accepts the metric.
FirstAccepting(map, m) ==
  {n \in IndexNames :
     /\ map[n] # NoIndex /\ tryAddResult(map[n], m)
     /\ \A k \in IndexNames :
          (k < n /\ map[k] # NoIndex) => ~tryAddResult(map[k], m)}
FanOutCreatedFirstMatch(map, m) ==
  [n \in IndexNames |->
     IF n \in FirstAccepting(map, m) THEN tryAdd(map[n], m) ELSE map[n]]
\* Mutant: the notification reaches no index.
FanOutCreatedNone(map, m) == map
\* for (auto& pair : indices) pair.second->tryAdd(metric)
FanOutCreated(map, m) ==
  [n \in IndexNames |-> IF map[n] # NoIndex THEN tryAdd(map[n], m) ELSE NoIndex]
\* Mutant: the loop stops after the first index that held the metric.
FirstHolding(map, m) ==
  {n \in IndexNames :
     /\ map[n] # NoIndex /\ m \in Members(map[n].metrics_set_)
     /\ \A k \in IndexNames :
          (k < n /\ map[k] # NoIndex) => m \notin Members(map[k].metrics_set_)}
FanOutDeletedFirstHit(map, m) ==
  [n \in IndexNames |->
     IF n \in FirstHolding(map, m) THEN remove(map[n], m) ELSE map[n]]
\* for (auto& pair : indices) pair.second->remove(metric)
FanOutDeleted(map, m) ==
  [n \in IndexNames |-> IF map[n] # NoIndex THEN remove(map[n], m) ELSE NoIndex]

BoolStr(b) == IF b THEN "true" ELSE "false"

\* No IdleActivityMonitor (none constructed yet); the registry's calls leave
\* the monitor, the time source and the monitor's reader of the stats alone.
NoMonitor == [constructed |-> FALSE]
MonitorFrame == UNCHANGED <<monitor, clock, stats_reader, root_store>>

\* The record of a call: what was called on what, what it returned (ret, and
\* ref: the index a registration returned), and in how many indices it changed
\* the member set or the entry.
Changed ==
  Cardinality({n \in IndexNames : gauge_indices_'[n] # gauge_indices_[n]}) +
  Cardinality({n \in IndexNames : counter_indices_'[n] # counter_indices_[n]})
Returns(op, kind, idx, m, ret, ref) ==
  /\ last' = [op |-> op, kind |-> kind, index |-> idx, metric |-> m,
              ret |-> ret, ref |-> ref, changed |-> Changed]
  /\ UNCHANGED <<pc, mutex_, index_mutex_, value, agg, agg_mutex_>>
  /\ MonitorFrame

\* The accumulators of the aggregation callbacks.
NoAcc == [total |-> 0, result |-> 0,
          out_sum |-> 0, out_min |-> 0, out_max |-> 0, out_count |-> 0]

Idle == [op |-> "idle", at |-> "idle", index |-> 0, matcher |-> NoMatcher,
         metric |-> NoMetric, visited |-> {}, ret |-> "void", raced |-> FALSE,
         cb |-> "none", pos |-> 0, seen |-> <<>>, snap |-> <<>>,
         acc |-> NoAcc, initial |-> 0, stable |-> TRUE]

Init ==
  /\ gauges = {}
  /\ counters = {}
  /\ gauge_indices_ = [n \in IndexNames |-> NoIndex]
  /\ counter_indices_ = [n \in IndexNames |-> NoIndex]
  /\ panicked = FALSE
  /\ last = [op |-> "init", kind |-> "none", index |-> 0,
             metric |-> NoMetric, ret |-> "void", ref |-> 0, changed |-> 0]
  /\ pc = [t \in Threads |-> Idle]
  /\ mutex_ = 0
  /\ index_mutex_ = [n \in IndexNames |-> 0]
  /\ value = [g \in Gauges |-> 0]
  /\ agg = NoIndex
  /\ agg_mutex_ = 0
  /\ monitor = NoMonitor
  /\ clock = 0
  /\ stats_reader = [gauges_initialized_ |-> FALSE, upstream_gauge_ |-> 0,
                     downstream_gauge_ |-> 0]
  /\ root_store = <<<<>>, <<>>, <<>>, <<>>, <<>>>>

\* The base store creates a metric (no notification is wired to it).
StoreCreateGauge(g) ==
  /\ ~panicked /\ g \notin gauges
  /\ gauges' = gauges \cup {g}
  /\ UNCHANGED <<counters, gauge_indices_, counter_indices_, panicked>>
  /\ Returns("createGauge", "gauge", 0, g, "void", 0)

StoreCreateCounter(c) ==
  /\ ~panicked /\ c \notin counters
  /\ counters' = counters \cup {c}
  /\ UNCHANGED <<gauges, gauge_indices_, counter_indices_, panicked>>
  /\ Returns("createCounter", "counter", 0, c, "void", 0)

\* Mutant: the plain registration scans the base store as well.
registerGaugeIndexScans(n, M) ==
  /\ ~panicked
  /\ UNCHANGED <<gauges, counters, counter_indices_>>
  /\ IF Exists(gauge_indices_, n)
     THEN /\ panicked' = TRUE
          /\ UNCHANGED gauge_indices_
          /\ Returns("registerGaugeIndex", "gauge", n, NoMetric, "panic", 0)
     ELSE /\ gauge_indices_' =
               Emplace(gauge_indices_, n,
                       Backfill(StatsIndex(NewId("gauge", n), n, M), gauges))
          /\ UNCHANGED panicked
          /\ Returns("registerGaugeIndex", "gauge", n, NoMetric, "ref",
                     NewId("gauge", n))

registerGaugeIndex(n, M) ==
  /\ ~panicked
  /\ UNCHANGED <<gauges, counters, counter_indices_>>
  /\ IF Exists(gauge_indices_, n)
     THEN /\ panicked' = TRUE
          /\ UNCHANGED gauge_indices_
          /\ Returns("registerGaugeIndex", "gauge", n, NoMetric, "panic", 0)
     ELSE /\ gauge_indices_' =
               Emplace(gauge_indices_, n, StatsIndex(NewId("gauge", n), n, M))
          /\ UNCHANGED panicked
          /\ Returns("registerGaugeIndex", "gauge", n, NoMetric, "ref",
                     NewId("gauge", n))

registerGaugeIndexWithExisting(n, M) ==
  /\ ~panicked
  /\ UNCHANGED <<gauges, counters, counter_indices_>>
  /\ IF Exists(gauge_indices_, n)
     THEN /\ panicked' = TRUE
          /\ UNCHANGED gauge_indices_
          /\ Returns("registerGaugeIndexWithExisting", "gauge", n, NoMetric,
                     "panic", 0)
     ELSE /\ gauge_indices_' =
               Emplace(gauge_indices_, n,
                       Backfill(StatsIndex(NewId("gauge", n), n, M), gauges))
          /\ UNCHANGED panicked
          /\ Returns("registerGaugeIndexWithExisting", "gauge", n, NoMetric,
                     "ref", NewId("gauge", n))

\* Mutant: one namespace for both kinds (the name is looked up in both maps).
registerCounterIndexOneNamespace(n, M) ==
  /\ ~panicked
  /\ UNCHANGED <<gauges, counters, gauge_indices_>>
  /\ IF Exists(counter_indices_, n) \/ Exists(gauge_indices_, n)
     THEN /\ panicked' = TRUE
          /\ UNCHANGED counter_indices_
          /\ Returns("registerCounterIndex", "counter", n, NoMetric, "panic", 0)
     ELSE /\ counter_indices_' =
               Emplace(counter_indices_, n, StatsIndex(NewId("counter", n), n, M))
          /\ UNCHANGED panicked
          /\ Returns("registerCounterIndex", "counter", n, NoMetric, "ref",
                     NewId("counter", n))

registerCounterIndex(n, M) ==
  /\ ~panicked
  /\ UNCHANGED <<gauges, counters, gauge_indices_>>
  /\ IF Exists(counter_indices_, n)
     THEN /\ panicked' = TRUE
          /\ UNCHANGED counter_indices_
          /\ Returns("registerCounterIndex", "counter", n, NoMetric, "panic", 0)
     ELSE /\ counter_indices_' =
               Emplace(counter_indices_, n, StatsIndex(NewId("counter", n), n, M))
          /\ UNCHANGED panicked
          /\ Returns("registerCounterIndex", "counter", n, NoMetric, "ref",
                     NewId("counter", n))

registerCounterIndexWithExisting(n, M) ==
  /\ ~panicked
  /\ UNCHANGED <<gauges, counters, gauge_indices_>>
  /\ IF Exists(counter_indices_, n)
     THEN /\ panicked' = TRUE
          /\ UNCHANGED counter_indices_
          /\ Returns("registerCounterIndexWithExisting", "counter", n, NoMetric,
                     "panic", 0)
     ELSE /\ counter_indices_' =
               Emplace(counter_indices_, n,
                       Backfill(StatsIndex(NewId("counter", n), n, M), counters))
          /\ UNCHANGED panicked
          /\ Returns("registerCounterIndexWithExisting", "counter", n, NoMetric,
                     "ref", NewId("counter", n))

removeGaugeIndex(n) ==
  /\ ~panicked
  /\ gauge_indices_' = EraseIndex(gauge_indices_, n)
  /\ UNCHANGED <<gauges, counters, counter_indices_, panicked>>
  /\ Returns("removeGaugeIndex", "gauge", n, NoMetric,
             BoolStr(Exists(gauge_indices_, n)), 0)

removeCounterIndex(n) ==
  /\ ~panicked
  /\ counter_indices_' = EraseIndex(counter_indices_, n)
  /\ UNCHANGED <<gauges, counters, gauge_indices_, panicked>>
  /\ Returns("removeCounterIndex", "counter", n, NoMetric,
             BoolStr(Exists(counter_indices_, n)), 0)

onGaugeCreated(g) ==
  /\ ~panicked /\ g \in gauges
  /\ gauge_indices_' = FanOutCreated(gauge_indices_, g)
  /\ UNCHANGED <<gauges, counters, counter_indices_, panicked>>
  /\ Returns("onGaugeCreated", "gauge", 0, g, "void", 0)

onCounterCreated(c) ==
  /\ ~panicked /\ c \in counters
  /\ counter_indices_' = FanOutCreated(counter_indices_, c)
  /\ UNCHANGED <<gauges, counters, gauge_indices_, panicked>>
  /\ Returns("onCounterCreated", "counter", 0, c, "void", 0)

onGaugeDeleted(g) ==
  /\ ~panicked /\ g \in gauges
  /\ gauge_indices_' = FanOutDeleted(gauge_indices_, g)
  /\ UNCHANGED <<gauges, counters, counter_indices_, panicked>>
  /\ Returns("onGaugeDeleted", "gauge", 0, g, "void", 0)

onCounterDeleted(c) ==
  /\ ~panicked /\ c \in counters
  /\ counter_indices_' = FanOutDeleted(counter_indices_, c)
  /\ UNCHANGED <<gauges, counters, gauge_indices_, panicked>>
  /\ Returns("onCounterDeleted", "counter", 0, c, "void", 0)

\* The base store's deletion path: the hook, then the storage is released.
StoreDeleteGauge(g) ==
  /\ ~panicked /\ g \in gauges
  /\ gauge_indices_' = FanOutDeleted(gauge_indices_, g)
  /\ gauges' = gauges \ {g}
  /\ UNCHANGED <<counters, counter_indices_, panicked>>
  /\ Returns("deleteGauge", "gauge", 0, g, "void", 0)

StoreDeleteCounter(c) ==
  /\ ~panicked /\ c \in counters
  /\ counter_indices_' = FanOutDeleted(counter_indices_, c)
  /\ counters' = counters \ {c}
  /\ UNCHANGED <<gauges, gauge_indices_, panicked>>
  /\ Returns("deleteCounter", "counter", 0, c, "void", 0)

\* A caller holding the reference register/get returned calls the index itself.
Kinds == {"gauge", "counter"}
MetricsOf(k) == IF k = "gauge" THEN Gauges ELSE Counters
Partition(k) == IF k = "gauge" THEN gauge_indices_ ELSE counter_indices_
Alive(k) == IF k = "gauge" THEN gauges ELSE counters
SetIndex(k, n, idx) ==
  IF k = "gauge"
  THEN gauge_indices_' = [gauge_indices_ EXCEPT ![n] = idx]
       /\ UNCHANGED counter_indices_
  ELSE counter_indices_' = [counter_indices_ EXCEPT ![n] = idx]
       /\ UNCHANGED gauge_indices_

IndexTryAdd(k, n, m) ==
  /\ ~panicked /\ Exists(Partition(k), n) /\ m \in Alive(k)
  /\ SetIndex(k, n, tryAdd(Partition(k)[n], m))
  /\ UNCHANGED <<gauges, counters, panicked>>
  /\ Returns("tryAdd", k, n, m, BoolStr(tryAddResult(Partition(k)[n], m)), 0)

IndexTryAddWithStatName(k, n, m) ==
  /\ ~panicked /\ Exists(Partition(k), n) /\ m \in Alive(k)
  /\ SetIndex(k, n, tryAddWithStatName(Partition(k)[n], m))
  /\ UNCHANGED <<gauges, counters, panicked>>
  /\ Returns("tryAddWithStatName", k, n, m,
             BoolStr(tryAddWithStatNameResult(Partition(k)[n], m)), 0)

IndexRemove(k, n, m) ==
  /\ ~panicked /\ Exists(Partition(k), n) /\ m \in Alive(k)
  /\ SetIndex(k, n, remove(Partition(k)[n], m))
  /\ UNCHANGED <<gauges, counters, panicked>>
  /\ Returns("remove", k, n, m, "void", 0)

IndexClear(k, n) ==
  /\ ~panicked /\ Exists(Partition(k), n)
  /\ SetIndex(k, n, clear(Partition(k)[n]))
  /\ UNCHANGED <<gauges, counters, panicked>>
  /\ Returns("clear", k, n, NoMetric, "void", 0)

Next ==
  \/ \E g \in Gauges : StoreCreateGauge(g)
  \/ \E c \in Counters : StoreCreateCounter(c)
  \/ \E g \in Gauges : StoreDeleteGauge(g)
  \/ \E c \in Counters : StoreDeleteCounter(c)
  \/ \E n \in IndexNames, M \in MatcherInputs : registerGaugeIndex(n, M)
  \/ \E n \in IndexNames, M \in MatcherInputs : registerGaugeIndexWithExisting(n, M)
  \/ \E n \in CounterIndexNames, M \in MatcherInputs : registerCounterIndex(n, M)
  \/ \E n \in CounterIndexNames, M \in MatcherInputs :
       registerCounterIndexWithExisting(n, M)
  \/ \E n \in IndexNames : removeGaugeIndex(n)
  \/ \E n \in CounterIndexNames : removeCounterIndex(n)
  \/ \E g \in Gauges : onGaugeCreated(g)
  \/ \E c \in Counters : onCounterCreated(c)
  \/ \E g \in Gauges : onGaugeDeleted(g)
  \/ \E c \in Counters : onCounterDeleted(c)
  \/ \E k \in Kinds, n \in IndexNames : \E m \in MetricsOf(k) : IndexTryAdd(k, n, m)
  \/ \E k \in Kinds, n \in IndexNames : \E m \in MetricsOf(k) :
       IndexTryAddWithStatName(k, n, m)
  \/ \E k \in Kinds, n \in IndexNames : \E m \in MetricsOf(k) : IndexRemove(k, n, m)
  \/ \E k \in Kinds, n \in IndexNames : IndexClear(k, n)

Spec == Init /\ [][Next]_vars

\* ---------------------------------------------------------------- SpecConc
\* Threads run calls on the gauge partition concurrently.  A step is one
\* critical section: the registry's mutex_ is held for a whole registration
\* and for a whole fan-out, an index's mutex_ for one insert or erase;
\* tryAdd evaluates the matcher before it takes the index's mutex_.
ConcIndexNames == {1}
Free(t) == ~panicked /\ pc[t].at \in {"idle", "done"}
Busy(m) == \E t \in Threads : pc[t].metric = m /\ pc[t].at \notin {"idle", "done"}
AggFrame == UNCHANGED <<value, agg, agg_mutex_>>
ConcFrame ==
  /\ UNCHANGED <<counters, counter_indices_, last, mutex_, index_mutex_>>
  /\ AggFrame
  /\ MonitorFrame
GaugeRegistrations == {"registerGaugeIndex", "registerGaugeIndexWithExisting"}

\* A registration is called: the thread goes for the registry's mutex_.
CallRegister(t, op, n, M) ==
  /\ Free(t)
  /\ pc' = [pc EXCEPT ![t] = [Idle EXCEPT !.op = op, !.at = "lock",
                                          !.index = n, !.matcher = M]]
  /\ UNCHANGED <<gauges, gauge_indices_, panicked>>
  /\ ConcFrame

\* Another thread is waiting for mutex_ to register the same name.
Raced(t) ==
  \E u \in Threads \ {t} :
    pc[u].at = "lock" /\ pc[u].index = pc[t].index /\
    (pc[u].op \in GaugeRegistrations) = (pc[t].op \in GaugeRegistrations)

\* registerGaugeIndex's critical section (lines 14-22).
LockedRegister(t) ==
  /\ ~panicked /\ pc[t].at = "lock" /\ pc[t].op \in GaugeRegistrations
  /\ IF Exists(gauge_indices_, pc[t].index)
     THEN /\ panicked' = TRUE
          /\ UNCHANGED gauge_indices_
          /\ pc' = [pc EXCEPT ![t].at = "done", ![t].ret = "panic",
                              ![t].raced = Raced(t)]
     ELSE /\ gauge_indices_' =
               Emplace(gauge_indices_, pc[t].index,
                       StatsIndex(NewId("gauge", pc[t].index), pc[t].index,
                                  pc[t].matcher))
          /\ UNCHANGED panicked
          /\ pc' = [pc EXCEPT
                      ![t].at = IF pc[t].op = "registerGaugeIndex"
                                THEN "done" ELSE "scan",
                      ![t].ret = "ref", ![t].raced = Raced(t)]
  /\ UNCHANGED gauges
  /\ ConcFrame

\* registerCounterIndex's critical section (lines 37-45).
LockedRegisterCounter(t) ==
  /\ ~panicked /\ pc[t].at = "lock" /\ pc[t].op = "registerCounterIndex"
  /\ IF Exists(counter_indices_, pc[t].index)
     THEN /\ panicked' = TRUE
          /\ UNCHANGED counter_indices_
          /\ pc' = [pc EXCEPT ![t].at = "done", ![t].ret = "panic",
                              ![t].raced = Raced(t)]
     ELSE /\ counter_indices_' =
               Emplace(counter_indices_, pc[t].index,
                       StatsIndex(NewId("counter", pc[t].index), pc[t].index,
                                  pc[t].matcher))
          /\ UNCHANGED panicked
          /\ pc' = [pc EXCEPT ![t].at = "done", ![t].ret = "ref",
                              ![t].raced = Raced(t)]
  /\ UNCHANGED <<gauges, gauge_indices_, counters, last, mutex_, index_mutex_>>
  /\ AggFrame
  /\ MonitorFrame

\* forEachGauge hands the next gauge to the callback; index.tryAdd evaluates
\* the matcher (stats_index.h line 68).
ScanMatch(t, g) ==
  /\ ~panicked /\ pc[t].at = "scan"
  /\ g \in gauges \ pc[t].visited
  /\ IF tryAddResult(gauge_indices_[pc[t].index], g)
     THEN pc' = [pc EXCEPT ![t].at = "insert", ![t].metric = g]
     ELSE pc' = [pc EXCEPT ![t].visited = @ \cup {g}]
  /\ UNCHANGED <<gauges, gauge_indices_, panicked>>
  /\ ConcFrame

\* index.tryAdd takes the index's mutex_ and inserts (lines 71-73).
ScanInsert(t) ==
  /\ ~panicked /\ pc[t].at = "insert"
  /\ gauge_indices_' =
       [gauge_indices_ EXCEPT ![pc[t].index].metrics_set_ =
                                   Insert(@, pc[t].metric)]
  /\ pc' = [pc EXCEPT ![t].at = "scan", ![t].metric = NoMetric,
                      ![t].visited = @ \cup {pc[t].metric}]
  /\ UNCHANGED <<gauges, panicked>>
  /\ ConcFrame

\* forEachGauge has handed over every gauge of the store.
ScanDone(t) ==
  /\ ~panicked /\ pc[t].at = "scan"
  /\ gauges \subseteq pc[t].visited
  /\ pc' = [pc EXCEPT ![t].at = "done", ![t].visited = {}]
  /\ UNCHANGED <<gauges, gauge_indices_, panicked>>
  /\ ConcFrame

\* The base store creates gauge g and notifies: onGaugeCreated(g) is pending.
CallCreate(t, g) ==
  /\ Free(t) /\ g \notin gauges /\ ~Busy(g)
  /\ gauges' = gauges \cup {g}
  /\ pc' = [pc EXCEPT ![t] = [Idle EXCEPT !.op = "onGaugeCreated",
                                          !.at = "hook", !.metric = g]]
  /\ UNCHANGED <<gauge_indices_, panicked>>
  /\ ConcFrame

\* onGaugeCreated's critical section (lines 94-97); raced: a registration's
\* scan of the base store is under way on another thread.
LockedCreated(t) ==
  /\ ~panicked /\ pc[t].op = "onGaugeCreated" /\ pc[t].at = "hook"
  /\ gauge_indices_' = FanOutCreated(gauge_indices_, pc[t].metric)
  /\ pc' = [pc EXCEPT ![t].at = "done",
                      ![t].raced = \E u \in Threads \ {t} :
                                     pc[u].at \in {"scan", "insert"}]
  /\ UNCHANGED <<gauges, panicked>>
  /\ ConcFrame

\* The base store starts deleting gauge g: onGaugeDeleted(g) is pending, the
\* storage is released once it has returned.
CallDelete(t, g) ==
  /\ Free(t) /\ g \in gauges /\ ~Busy(g)
  /\ pc' = [pc EXCEPT ![t] = [Idle EXCEPT !.op = "onGaugeDeleted",
                                          !.at = "hook", !.metric = g]]
  /\ UNCHANGED <<gauges, gauge_indices_, panicked>>
  /\ ConcFrame

\* onGaugeDeleted's critical section (lines 108-111).
LockedDeleted(t) ==
  /\ ~panicked /\ pc[t].op = "onGaugeDeleted" /\ pc[t].at = "hook"
  /\ gauge_indices_' = FanOutDeleted(gauge_indices_, pc[t].metric)
  /\ pc' = [pc EXCEPT ![t].at = "release"]
  /\ UNCHANGED <<gauges, panicked>>
  /\ ConcFrame

\* The base store releases the gauge's storage.
Release(t) ==
  /\ ~panicked /\ pc[t].at = "release"
  /\ gauges' = gauges \ {pc[t].metric}
  /\ pc' = [pc EXCEPT ![t].at = "done"]
  /\ UNCHANGED <<gauge_indices_, panicked>>
  /\ ConcFrame

NextConc ==
  \/ \E t \in Threads, n \in ConcIndexNames, M \in MatcherInputs :
       CallRegister(t, "registerGaugeIndex", n, M)
  \/ \E t \in Threads, n \in ConcIndexNames, M \in MatcherInputs :
       CallRegister(t, "registerGaugeIndexWithExisting", n, M)
  \/ \E t \in Threads, n \in ConcIndexNames, M \in MatcherInputs :
       CallRegister(t, "registerCounterIndex", n, M)
  \/ \E t \in Threads : LockedRegister(t)
  \/ \E t \in Threads : LockedRegisterCounter(t)
  \/ \E t \in Threads, g \in Gauges : ScanMatch(t, g)
  \/ \E t \in Threads : ScanInsert(t)
  \/ \E t \in Threads : ScanDone(t)
  \/ \E t \in Threads, g \in Gauges : CallCreate(t, g)
  \/ \E t \in Threads : LockedCreated(t)
  \/ \E t \in Threads, g \in Gauges : CallDelete(t, g)
  \/ \E t \in Threads : LockedDeleted(t)
  \/ \E t \in Threads : Release(t)

SpecConc == Init /\ [][NextConc]_vars

\* -------------------------------------------------------------- SpecLookup
\* The registry's mapping operations: registration, lookup, removal, count.
\* it != end() ? it->second.get() : nullptr
Find(map, n) == IF Exists(map, n) THEN map[n].id ELSE 0
\* gaugeIndexCount / counterIndexCount: the size of the partition's map.
IndexCount(map) == Cardinality({n \in IndexNames : Exists(map, n)})

getGaugeIndex(n) ==
  /\ ~panicked
  /\ UNCHANGED <<gauges, counters, gauge_indices_, counter_indices_, panicked>>
  /\ Returns("getGaugeIndex", "gauge", n, NoMetric,
             IF Exists(gauge_indices_, n) THEN "ref" ELSE "null",
             Find(gauge_indices_, n))

getCounterIndex(n) ==
  /\ ~panicked
  /\ UNCHANGED <<gauges, counters, gauge_indices_, counter_indices_, panicked>>
  /\ Returns("getCounterIndex", "counter", n, NoMetric,
             IF Exists(counter_indices_, n) THEN "ref" ELSE "null",
             Find(counter_indices_, n))

NextLookup ==
  \/ \E g \in Gauges : StoreCreateGauge(g)
  \/ \E g \in Gauges : onGaugeCreated(g)
  \/ \E n \in IndexNames, M \in MatcherInputs : registerGaugeIndex(n, M)
  \/ \E n \in IndexNames, M \in MatcherInputs : registerCounterIndex(n, M)
  \/ \E n \in IndexNames : getGaugeIndex(n)
  \/ \E n \in IndexNames : getCounterIndex(n)
  \/ \E n \in IndexNames : removeGaugeIndex(n)
  \/ \E n \in IndexNames : removeCounterIndex(n)

SpecLookup == Init /\ [][NextLookup]_vars

\* --------------------------------------------------------------- SpecLocks
\* The two lock scopes made explicit, on the gauge partition: a thread that
\* needs a mutex some thread holds cannot step.  A critical section that
\* takes no further lock is one step, taken when its mutex is free.
LockFrame ==
  UNCHANGED <<counters, counter_indices_, last>> /\ AggFrame /\ MonitorFrame
\* The matchers each index name is registered with.
LockMatchers(n) ==
  IF n = 1 THEN MatcherInputs
  ELSE { OrIndexMatcher(<< PrefixSuffixIndexMatcher(<<"b">>, <<>>),
                           PrefixSuffixIndexMatcher(<<>>, <<"x">>) >>) }
\* What a forEach callback does with the metric it is handed: nothing but
\* read it, call size() on the other index, or look an index up in the store.
Callbacks == {"pure", "size", "get"}
Other(n) == CHOOSE k \in IndexNames : k # n

\* registerGaugeIndex / getGaugeIndex: absl::MutexLock lock(&mutex_), the
\* mapping operation, unlock.
LRegister(t) ==
  /\ mutex_ = 0
  /\ pc[t].op = "registerGaugeIndex"
  /\ LockedRegister(t)

LCallGet(t, n) ==
  /\ Free(t)
  /\ pc' = [pc EXCEPT ![t] = [Idle EXCEPT !.op = "getGaugeIndex",
                                          !.at = "lock", !.index = n]]
  /\ UNCHANGED <<gauges, gauge_indices_, panicked>>
  /\ ConcFrame

LGet(t) ==
  /\ ~panicked /\ mutex_ = 0
  /\ pc[t].op = "getGaugeIndex" /\ pc[t].at = "lock"
  /\ pc' = [pc EXCEPT ![t].at = "done",
                      ![t].ret = IF Exists(gauge_indices_, pc[t].index)
                                 THEN "ref" ELSE "null"]
  /\ UNCHANGED <<gauges, gauge_indices_, panicked>>
  /\ ConcFrame

\* Mutant: the notification iterates the partition without holding mutex_.
FanOutLockNotHeld(t) == 0
\* onGaugeCreated / onGaugeDeleted: absl::MutexLock lock(&mutex_), held until
\* the loop over the partition is over.
FanOutLock(t) == t

LNotify(t) ==
  /\ ~panicked /\ mutex_ = 0
  /\ pc[t].at = "hook"
  /\ mutex_' = FanOutLock(t)
  /\ pc' = [pc EXCEPT ![t].at = "fanout", ![t].visited = {}]
  /\ UNCHANGED <<gauges, gauge_indices_, panicked, index_mutex_>>
  /\ LockFrame

\* The indices the loop has not reached yet, and the one it is at.
Unvisited(t) == {n \in IndexNames : Exists(gauge_indices_, n)} \ pc[t].visited
NextIndex(t) == CHOOSE n \in Unvisited(t) : \A k \in Unvisited(t) : n <= k
\* pair.second->tryAdd(gauge) takes the index's mutex_ only after a match;
\* pair.second->remove(gauge) always takes it.
NeedsIndexLock(t) ==
  \/ pc[t].op = "onGaugeDeleted"
  \/ tryAddResult(gauge_indices_[NextIndex(t)], pc[t].metric)

LFanOutStep(t) ==
  /\ ~panicked /\ pc[t].at = "fanout" /\ Unvisited(t) # {}
  /\ NeedsIndexLock(t) => index_mutex_[NextIndex(t)] = 0
  /\ gauge_indices_' =
       [gauge_indices_ EXCEPT ![NextIndex(t)] =
          IF pc[t].op = "onGaugeDeleted" THEN remove(@, pc[t].metric)
          ELSE tryAdd(@, pc[t].metric)]
  /\ pc' = [pc EXCEPT ![t].visited = @ \cup {NextIndex(t)}]
  /\ UNCHANGED <<gauges, panicked, mutex_, index_mutex_>>
  /\ LockFrame

\* The loop is over: the notification returns and mutex_ is released.
LFanOutDone(t) ==
  /\ ~panicked /\ pc[t].at = "fanout" /\ Unvisited(t) = {}
  /\ mutex_' = 0
  /\ pc' = [pc EXCEPT ![t].at = IF pc[t].op = "onGaugeDeleted"
                                THEN "release" ELSE "done",
                      ![t].visited = {}]
  /\ UNCHANGED <<gauges, gauge_indices_, panicked, index_mutex_>>
  /\ LockFrame

\* A thread that holds a reference to gauge index n calls forEach(fn).
LCallForEach(t, n, cb) ==
  /\ Free(t) /\ Exists(gauge_indices_, n)
  /\ cb = "size" => Exists(gauge_indices_, Other(n))
  /\ pc' = [pc EXCEPT ![t] = [Idle EXCEPT !.op = "forEach", !.at = "index_lock",
                                          !.index = n, !.cb = cb]]
  /\ UNCHANGED <<gauges, gauge_indices_, panicked>>
  /\ ConcFrame

\* Mutant: forEach iterates without holding the index's mutex_.
ForEachLockNotHeld(t) == 0
\* forEach: absl::MutexLock lock(&mutex_), held until forEach returns.
ForEachLock(t) == t

LForEachLock(t) ==
  /\ ~panicked /\ pc[t].at = "index_lock"
  /\ index_mutex_[pc[t].index] = 0
  /\ index_mutex_' = [index_mutex_ EXCEPT ![pc[t].index] = ForEachLock(t)]
  /\ pc' = [pc EXCEPT ![t].at = "iter", ![t].pos = 1,
                      ![t].snap = gauge_indices_[pc[t].index].metrics_set_]
  /\ UNCHANGED <<gauges, gauge_indices_, panicked, mutex_>>
  /\ LockFrame

\* for (T* metric : metrics_set_) fn(*metric): the callback is entered.
LForEachCall(t) ==
  /\ ~panicked /\ pc[t].at = "iter"
  /\ pc[t].pos <= Len(gauge_indices_[pc[t].index].metrics_set_)
  /\ pc' = [pc EXCEPT
              ![t].seen =
                 Append(@, gauge_indices_[pc[t].index].metrics_set_[pc[t].pos]),
              ![t].at = IF pc[t].cb = "pure" THEN "iter"
                        ELSE IF pc[t].cb = "size" THEN "cb_size" ELSE "cb_get",
              ![t].pos = IF pc[t].cb = "pure" THEN @ + 1 ELSE @]
  /\ UNCHANGED <<gauges, gauge_indices_, panicked, mutex_, index_mutex_>>
  /\ LockFrame

\* The callback's call of size() on the other index: its mutex_ is taken and
\* released, and the callback returns true.
LCallbackSize(t) ==
  /\ ~panicked /\ pc[t].at = "cb_size"
  /\ index_mutex_[Other(pc[t].index)] = 0
  /\ pc' = [pc EXCEPT ![t].at = "iter", ![t].pos = @ + 1]
  /\ UNCHANGED <<gauges, gauge_indices_, panicked, mutex_, index_mutex_>>
  /\ LockFrame

\* The callback's call of getGaugeIndex: the store's mutex_ is taken and
\* released, and the callback returns true.
LCallbackGet(t) ==
  /\ ~panicked /\ pc[t].at = "cb_get"
  /\ mutex_ = 0
  /\ pc' = [pc EXCEPT ![t].at = "iter", ![t].pos = @ + 1]
  /\ UNCHANGED <<gauges, gauge_indices_, panicked, mutex_, index_mutex_>>
  /\ LockFrame

\* The loop is over: forEach returns true and the index's mutex_ is released.
LForEachDone(t) ==
  /\ ~panicked /\ pc[t].at = "iter"
  /\ pc[t].pos > Len(gauge_indices_[pc[t].index].metrics_set_)
  /\ index_mutex_' = [index_mutex_ EXCEPT ![pc[t].index] = 0]
  /\ pc' = [pc EXCEPT ![t].at = "done", ![t].ret = "true", ![t].pos = 0,
                      ![t].seen = <<>>, ![t].snap = <<>>]
  /\ UNCHANGED <<gauges, gauge_indices_, panicked, mutex_>>
  /\ LockFrame

\* A thread that holds a reference to gauge index n calls clear().
LIndexClear(t, n) ==
  /\ Free(t) /\ Exists(gauge_indices_, n)
  /\ index_mutex_[n] = 0
  /\ gauge_indices_' = [gauge_indices_ EXCEPT ![n] = clear(@)]
  /\ pc' = [pc EXCEPT ![t] = [Idle EXCEPT !.op = "clear", !.at = "done",
                                          !.index = n]]
  /\ UNCHANGED <<gauges, panicked>>
  /\ ConcFrame

NextLocks ==
  \/ \E t \in Threads, n \in IndexNames : \E M \in LockMatchers(n) :
       CallRegister(t, "registerGaugeIndex", n, M)
  \/ \E t \in Threads : LRegister(t)
  \/ \E t \in Threads, n \in IndexNames : LCallGet(t, n)
  \/ \E t \in Threads : LGet(t)
  \/ \E t \in Threads, g \in Gauges : CallCreate(t, g)
  \/ \E t \in Threads, g \in Gauges : CallDelete(t, g)
  \/ \E t \in Threads : LNotify(t)
  \/ \E t \in Threads : LFanOutStep(t)
  \/ \E t \in Threads : LFanOutDone(t)
  \/ \E t \in Threads : Release(t)
  \/ \E t \in Threads, n \in IndexNames, cb \in Callbacks : LCallForEach(t, n, cb)
  \/ \E t \in Threads : LForEachLock(t)
  \/ \E t \in Threads : LForEachCall(t)
  \/ \E t \in Threads : LCallbackSize(t)
  \/ \E t \in Threads : LCallbackGet(t)
  \/ \E t \in Threads : LForEachDone(t)
  \/ \E t \in Threads, n \in IndexNames : LIndexClear(t, n)

SpecLocks == Init /\ [][NextLocks]_vars

\* -------------------------------------------------------------- SpecFanOut
\* The notifications of the gauge partition with the registry's mutex_, as in
\* SpecLocks, and a base store that may delete a gauge while the creation
\* notification of that gauge is still waiting on another thread.
CallDeleteEarly(t, g) ==
  /\ Free(t) /\ g \in gauges
  /\ \E u \in Threads \ {t} :
       pc[u].op = "onGaugeCreated" /\ pc[u].metric = g /\ pc[u].at = "hook"
  /\ pc' = [pc EXCEPT ![t] = [Idle EXCEPT !.op = "onGaugeDeleted",
                                          !.at = "hook", !.metric = g,
                                          !.raced = TRUE]]
  /\ UNCHANGED <<gauges, gauge_indices_, panicked>>
  /\ ConcFrame

NextFanOut ==
  \/ \E t \in Threads, n \in IndexNames : \E M \in LockMatchers(n) :
       CallRegister(t, "registerGaugeIndex", n, M)
  \/ \E t \in Threads : LRegister(t)
  \/ \E t \in Threads, g \in Gauges : CallCreate(t, g)
  \/ \E t \in Threads, g \in Gauges : CallDelete(t, g)
  \/ \E t \in Threads, g \in Gauges : CallDeleteEarly(t, g)
  \/ \E t \in Threads : LNotify(t)
  \/ \E t \in Threads : LFanOutStep(t)
  \/ \E t \in Threads : LFanOutDone(t)
  \/ \E t \in Threads : Release(t)

SpecFanOut == Init /\ [][NextFanOut]_vars

\* ------------------------------------------------------------ SpecRegistry
\* The registry's mapping under concurrent registration, removal and
\* iteration, with queries running on the references threads hold.
\* Thread u is inside forEach on gauge index n.
OnIndex(u, n) ==
  pc[u].op = "forEach" /\ pc[u].at \in {"index_lock", "iter"} /\ pc[u].index = n

\* removeGaugeIndex(n): absl::MutexLock lock(&mutex_); erase(name) destroys
\* the StatsIndex the unique_ptr owns, its mutex_ included.  A forEach another
\* thread is inside is left on the destroyed object.
LRemove(t, n) ==
  /\ Free(t) /\ mutex_ = 0
  /\ gauge_indices_' = EraseIndex(gauge_indices_, n)
  /\ index_mutex_' = [index_mutex_ EXCEPT ![n] = 0]
  /\ pc' = [u \in Threads |->
              IF u = t
              THEN [Idle EXCEPT !.op = "removeGaugeIndex", !.at = "done",
                                !.index = n,
                                !.ret = BoolStr(Exists(gauge_indices_, n))]
              ELSE IF OnIndex(u, n) THEN [pc[u] EXCEPT !.at = "dangling"]
              ELSE pc[u]]
  /\ UNCHANGED <<gauges, panicked, mutex_>>
  /\ LockFrame

\* forEach goes on over freed storage: the behaviour is undefined, the
\* process crashes or the call returns whatever it finds.
UseAfterFree(t) ==
  /\ ~panicked /\ pc[t].at = "dangling"
  /\ \E crash \in BOOLEAN :
       /\ panicked' = crash
       /\ pc' = [pc EXCEPT ![t].at = "done",
                           ![t].ret = IF crash THEN "panic" ELSE "undefined"]
  /\ UNCHANGED <<gauges, gauge_indices_, mutex_, index_mutex_>>
  /\ LockFrame

\* forEachGaugeIndex(fn) is called; fn returns false on the index named stop
\* and true on every other one (stop = 0: fn never returns false).
LCallForEachIndex(t, stop) ==
  /\ Free(t)
  /\ pc' = [pc EXCEPT ![t] = [Idle EXCEPT !.op = "forEachGaugeIndex",
                                          !.at = "lock", !.index = stop]]
  /\ UNCHANGED <<gauges, gauge_indices_, panicked>>
  /\ ConcFrame

\* Mutant: the iteration runs without holding mutex_.
LForEachIndexLockNotHeld(t) ==
  /\ ~panicked /\ mutex_ = 0
  /\ pc[t].op = "forEachGaugeIndex" /\ pc[t].at = "lock"
  /\ pc' = [pc EXCEPT ![t].at = "each", ![t].visited = {}]
  /\ UNCHANGED <<gauges, gauge_indices_, panicked, mutex_, index_mutex_>>
  /\ LockFrame
\* absl::MutexLock lock(&mutex_), held until forEachGaugeIndex returns.
LForEachIndexLock(t) ==
  /\ ~panicked /\ mutex_ = 0
  /\ pc[t].op = "forEachGaugeIndex" /\ pc[t].at = "lock"
  /\ mutex_' = t
  /\ pc' = [pc EXCEPT ![t].at = "each", ![t].visited = {}]
  /\ UNCHANGED <<gauges, gauge_indices_, panicked, index_mutex_>>
  /\ LockFrame

\* if (!fn(pair.first, *pair.second)) return; on the pair of name n, in the
\* order the hash map yields, which is any order.
LForEachIndexCall(t, n) ==
  /\ ~panicked /\ pc[t].op = "forEachGaugeIndex" /\ pc[t].at = "each"
  /\ n \in Unvisited(t)
  /\ IF n = pc[t].index
     THEN /\ mutex_' = 0
          /\ pc' = [pc EXCEPT ![t].at = "done", ![t].ret = "stopped",
                              ![t].seen = Append(@, n),
                              ![t].visited = @ \cup {n}]
     ELSE /\ UNCHANGED mutex_
          /\ pc' = [pc EXCEPT ![t].seen = Append(@, n),
                              ![t].visited = @ \cup {n}]
  /\ UNCHANGED <<gauges, gauge_indices_, panicked, index_mutex_>>
  /\ LockFrame

\* The loop is over: forEachGaugeIndex returns and mutex_ is released.
LForEachIndexDone(t) ==
  /\ ~panicked /\ pc[t].op = "forEachGaugeIndex" /\ pc[t].at = "each"
  /\ Unvisited(t) = {}
  /\ mutex_' = 0
  /\ pc' = [pc EXCEPT ![t].at = "done"]
  /\ UNCHANGED <<gauges, gauge_indices_, panicked, index_mutex_>>
  /\ LockFrame

NextRegistry ==
  \/ \E t \in Threads, n \in IndexNames : \E M \in LockMatchers(n) :
       CallRegister(t, "registerGaugeIndex", n, M)
  \/ \E t \in Threads : LRegister(t)
  \/ \E t \in Threads, n \in IndexNames : LRemove(t, n)
  \/ \E t \in Threads, g \in Gauges : CallCreate(t, g)
  \/ \E t \in Threads : LNotify(t)
  \/ \E t \in Threads : LFanOutStep(t)
  \/ \E t \in Threads : LFanOutDone(t)
  \/ \E t \in Threads, n \in IndexNames : LCallForEach(t, n, "pure")
  \/ \E t \in Threads : LForEachLock(t)
  \/ \E t \in Threads : LForEachCall(t)
  \/ \E t \in Threads : LForEachDone(t)
  \/ \E t \in Threads : UseAfterFree(t)
  \/ \E t \in Threads, n \in IndexNames : LIndexClear(t, n)
  \/ \E t \in Threads, stop \in IndexNames \cup {0} : LCallForEachIndex(t, stop)
  \/ \E t \in Threads : LForEachIndexLock(t)
  \/ \E t \in Threads, n \in IndexNames : LForEachIndexCall(t, n)
  \/ \E t \in Threads : LForEachIndexDone(t)

SpecRegistry == Init /\ [][NextRegistry]_vars

\* ----------------------------------------------------------------- SpecAgg
\* One AggregatedGaugeIndex, built and filled by its caller.  A query thread
\* runs forEach and the aggregations over it step by step (the index's mutex_
\* is taken, the callback is run on one member after the other, forEach
\* returns); tryAdd, remove and clear of other threads take effect when the
\* mutex_ is free, and gauge values change at any time.
UINT64_MAX == 2^Width - 1
Wrap(x) == x % (UINT64_MAX + 1)
Values == {0, 1, UINT64_MAX}
QueryThreads == {1}
AggName == 1
AggId == 2 * Cardinality(IndexNames) + 1
AggRest ==
  /\ UNCHANGED <<counters, gauge_indices_, counter_indices_, panicked,
                 last, mutex_, index_mutex_>>
  /\ MonitorFrame

\* using StatsIndex<T>::StatsIndex: AggregatedGaugeIndex index(name, matcher)
AggConstruct(M) ==
  /\ agg = NoIndex
  /\ agg' = StatsIndex(AggId, AggName, M)
  /\ UNCHANGED <<gauges, value, agg_mutex_, pc>>
  /\ AggRest

\* The base store creates a gauge; its value starts at 0.
AggCreateGauge(g) ==
  /\ g \notin gauges
  /\ gauges' = gauges \cup {g}
  /\ value' = [value EXCEPT ![g] = 0]
  /\ UNCHANGED <<agg, agg_mutex_, pc>>
  /\ AggRest

\* Gauge::set by any thread; a running query's reads are no longer of one
\* moment.
GaugeSet(g, v) ==
  /\ g \in gauges /\ value[g] # v
  /\ value' = [value EXCEPT ![g] = v]
  /\ pc' = [t \in Threads |->
              IF pc[t].at = "iter" THEN [pc[t] EXCEPT !.stable = FALSE]
              ELSE pc[t]]
  /\ UNCHANGED <<gauges, agg, agg_mutex_>>
  /\ AggRest

AggTryAdd(g) ==
  /\ agg # NoIndex /\ g \in gauges
  /\ tryAddResult(agg, g) => agg_mutex_ = 0
  /\ agg' = tryAdd(agg, g)
  /\ UNCHANGED <<gauges, value, agg_mutex_, pc>>
  /\ AggRest

AggRemove(g) ==
  /\ agg # NoIndex /\ g \in gauges
  /\ agg_mutex_ = 0
  /\ agg' = remove(agg, g)
  /\ UNCHANGED <<gauges, value, agg_mutex_, pc>>
  /\ AggRest

AggClear ==
  /\ agg # NoIndex
  /\ agg_mutex_ = 0
  /\ agg' = clear(agg)
  /\ UNCHANGED <<gauges, value, agg_mutex_, pc>>
  /\ AggRest

\* The callbacks a caller hands to forEach: one that always returns true and
\* one that returns false at the gauge `stop`.
fn(cb, stop, m) == cb = "all" \/ m # stop
\* The fold functions a caller hands to aggregate.
FoldFns == {"plus", "times", "shift"}
Apply(f, acc, val) ==
  IF f = "plus" THEN Wrap(acc + val)
  ELSE IF f = "times" THEN Wrap(acc * val)
  ELSE Wrap(2 * acc + val)

\* Mutant: the value overwrites the total.
sumStepOverwrites(total, val) == val
\* sum: total += metric.value()
sumStep(total, val) == Wrap(total + val)
\* Mutant: the comparison is the wrong way round.
minStepInverted(result, val) == IF val > result THEN val ELSE result
\* min: if (val < result) result = val
minStep(result, val) == IF val < result THEN val ELSE result
\* max: if (val > result) result = val
maxStep(result, val) == IF val > result THEN val ELSE result
\* Mutant: the fold restarts from the initial value at each member.
aggregateStepRestarts(f, initial, result, val) == Apply(f, initial, val)
\* aggregate: result = fn(result, metric.value())
aggregateStep(f, initial, result, val) == Apply(f, result, val)
\* computeStats: the callback
computeStatsStep(acc, val) ==
  [acc EXCEPT !.out_sum = Wrap(@ + val),
              !.out_min = IF val < @ THEN val ELSE @,
              !.out_max = IF val > @ THEN val ELSE @,
              !.out_count = @ + 1]
\* Mutant: the empty case is left as the loop's initial values.
computeStatsEmptyCaseMissing(acc) == acc
\* computeStats: if (out_count == 0) out_min = 0
computeStatsEmptyCase(acc) ==
  IF acc.out_count = 0 THEN [acc EXCEPT !.out_min = 0] ELSE acc

\* The locals and outputs as set before forEach is called.
InitialAcc(op, initial) ==
  IF op = "sum" THEN [NoAcc EXCEPT !.total = 0]
  ELSE IF op = "min" THEN [NoAcc EXCEPT !.result = UINT64_MAX]
  ELSE IF op = "max" THEN [NoAcc EXCEPT !.result = 0]
  ELSE IF op = "aggregate" THEN [NoAcc EXCEPT !.result = initial]
  ELSE IF op = "computeStats"
  THEN [NoAcc EXCEPT !.out_sum = 0, !.out_min = UINT64_MAX, !.out_max = 0,
                     !.out_count = 0]
  ELSE NoAcc

\* What the callback of the running query does to the accumulators.
Accumulate(q, val) ==
  IF q.op = "sum" THEN [q.acc EXCEPT !.total = sumStep(@, val)]
  ELSE IF q.op = "min" THEN [q.acc EXCEPT !.result = minStep(@, val)]
  ELSE IF q.op = "max" THEN [q.acc EXCEPT !.result = maxStep(@, val)]
  ELSE IF q.op = "aggregate"
  THEN [q.acc EXCEPT !.result = aggregateStep(q.cb, q.initial, @, val)]
  ELSE IF q.op = "computeStats" THEN computeStatsStep(q.acc, val)
  ELSE q.acc
\* What it returns: the aggregations' callbacks return true.
CallbackReturns(q, m) == IF q.op = "forEach" THEN fn(q.cb, q.metric, m) ELSE TRUE

\* The queries a caller makes.
Queries ==
  {[op |-> "forEach", cb |-> "all", stop |-> NoMetric, initial |-> 0]} \cup
  {[op |-> "forEach", cb |-> "until", stop |-> g, initial |-> 0] : g \in Gauges}
  \cup {[op |-> o, cb |-> "none", stop |-> NoMetric, initial |-> 0] :
          o \in {"sum", "min", "max", "computeStats"}}
  \cup {[op |-> "aggregate", cb |-> f, stop |-> NoMetric, initial |-> i] :
          f \in FoldFns, i \in {0, 1}}

\* The caller starts a query: the locals are set, forEach is called.
QCall(t, q) ==
  /\ Free(t) /\ agg # NoIndex
  /\ pc' = [pc EXCEPT ![t] =
              [Idle EXCEPT !.op = q.op, !.at = "index_lock", !.index = AggName,
                           !.cb = q.cb, !.metric = q.stop,
                           !.initial = q.initial,
                           !.acc = InitialAcc(q.op, q.initial)]]
  /\ UNCHANGED <<gauges, value, agg, agg_mutex_>>
  /\ AggRest

\* forEach: absl::MutexLock lock(&mutex_)
QLock(t) ==
  /\ pc[t].at = "index_lock" /\ pc[t].index = AggName
  /\ agg_mutex_ = 0
  /\ agg_mutex_' = ForEachLock(t)
  /\ pc' = [pc EXCEPT ![t].at = "iter", ![t].pos = 1,
                      ![t].snap = agg.metrics_set_, ![t].stable = TRUE]
  /\ UNCHANGED <<gauges, value, agg>>
  /\ AggRest

\* Mutant: a false return of the callback does not end the loop.
ForEachNeverStops(r) == FALSE
\* forEach: if (!fn(*metric)) return false
ForEachStops(r) == ~r

\* forEach: fn(*metric) on the member the loop is at; on a false return
\* forEach returns false and the mutex_ is released.
QCallback(t) ==
  /\ pc[t].at = "iter" /\ pc[t].index = AggName
  /\ pc[t].pos <= Len(agg.metrics_set_)
  /\ LET m == agg.metrics_set_[pc[t].pos]
         stops == ForEachStops(CallbackReturns(pc[t], m))
     IN /\ pc' = [pc EXCEPT ![t].acc = Accumulate(pc[t], value[m]),
                            ![t].seen = Append(@, m),
                            ![t].pos = IF stops THEN 0 ELSE @ + 1,
                            ![t].at = IF stops THEN "done" ELSE "iter",
                            ![t].ret = IF stops THEN "false" ELSE @]
        /\ agg_mutex_' = IF stops THEN 0 ELSE agg_mutex_
  /\ UNCHANGED <<gauges, value, agg>>
  /\ AggRest

\* forEach: return true after the loop; the mutex_ is released and the
\* aggregation returns its result.
QDone(t) ==
  /\ pc[t].at = "iter" /\ pc[t].index = AggName
  /\ pc[t].pos > Len(agg.metrics_set_)
  /\ agg_mutex_' = 0
  /\ pc' = [pc EXCEPT ![t].at = "done", ![t].ret = "true", ![t].pos = 0,
                      ![t].acc = IF pc[t].op = "computeStats"
                                 THEN computeStatsEmptyCase(@) ELSE @]
  /\ UNCHANGED <<gauges, value, agg>>
  /\ AggRest

\* Mutant: the vector is sized but only its first element is copied.
metricsFirstOnly(idx) ==
  IF idx.metrics_set_ = <<>> THEN <<>> ELSE <<Head(idx.metrics_set_)>>
\* metrics(): std::vector<T*>(metrics_set_.begin(), metrics_set_.end())
metrics(idx) == idx.metrics_set_

\* metrics() under the index's mutex_; the caller keeps the vector (snap).
QMetrics(t) ==
  /\ Free(t) /\ agg # NoIndex
  /\ agg_mutex_ = 0
  /\ pc' = [pc EXCEPT ![t] = [Idle EXCEPT !.op = "metrics", !.at = "done",
                                          !.index = AggName,
                                          !.snap = metrics(agg)]]
  /\ UNCHANGED <<gauges, value, agg, agg_mutex_>>
  /\ AggRest

\* count(): this->size() under the index's mutex_.
QCount(t) ==
  /\ Free(t) /\ agg # NoIndex
  /\ agg_mutex_ = 0
  /\ pc' = [pc EXCEPT ![t] =
              [Idle EXCEPT !.op = "count", !.at = "done", !.index = AggName,
                           !.acc = [NoAcc EXCEPT !.result = size(agg)]]]
  /\ UNCHANGED <<gauges, value, agg, agg_mutex_>>
  /\ AggRest

NextAgg ==
  \/ \E M \in MatcherInputs : AggConstruct(M)
  \/ \E g \in Gauges : AggCreateGauge(g)
  \/ \E g \in Gauges, v \in Values : GaugeSet(g, v)
  \/ \E g \in Gauges : AggTryAdd(g)
  \/ \E g \in Gauges : AggRemove(g)
  \/ AggClear
  \/ \E t \in QueryThreads, q \in Queries : QCall(t, q)
  \/ \E t \in QueryThreads : QLock(t)
  \/ \E t \in QueryThreads : QCallback(t)
  \/ \E t \in QueryThreads : QDone(t)
  \/ \E t \in QueryThreads : QMetrics(t)
  \/ \E t \in QueryThreads : QCount(t)

SpecAgg == Init /\ [][NextAgg]_vars

\* ------------------------------------------------------------- SpecAverage
\* average() of the AggregatedGaugeIndex, step by step: size() under the
\* index's mutex_, the return of 0.0 when it is 0, otherwise sum(), which is
\* the forEach of QLock / QCallback / QDone under a second hold of the mutex_.
\* n is kept in acc.out_count; the quotient returned is acc.total / n.
average(t) ==
  /\ Free(t) /\ agg # NoIndex
  /\ agg_mutex_ = 0
  /\ pc' = [pc EXCEPT ![t] =
              IF size(agg) = 0
              THEN [Idle EXCEPT !.op = "average", !.at = "done",
                                !.index = AggName, !.cb = "average"]
              ELSE [Idle EXCEPT !.op = "sum", !.at = "index_lock",
                                !.index = AggName, !.cb = "average",
                                !.acc = [InitialAcc("sum", 0) EXCEPT
                                           !.out_count = size(agg)]]]
  /\ UNCHANGED <<gauges, value, agg, agg_mutex_>>
  /\ AggRest

NextAverage ==
  \/ \E M \in MatcherInputs : AggConstruct(M)
  \/ \E g \in Gauges : AggCreateGauge(g)
  \/ \E g \in Gauges, v \in Values : GaugeSet(g, v)
  \/ \E g \in Gauges : AggTryAdd(g)
  \/ \E g \in Gauges : AggRemove(g)
  \/ AggClear
  \/ \E t \in QueryThreads : average(t)
  \/ \E t \in QueryThreads : QLock(t)
  \/ \E t \in QueryThreads : QCallback(t)
  \/ \E t \in QueryThreads : QDone(t)

SpecAverage == Init /\ [][NextAverage]_vars

\* --------------------------------------------------------------- SpecMatch
\* A caller evaluates a matcher on a name, by the string path or by the path
\* on the encoded name, or hands a metric to a fresh index of that matcher.
MatchNames ==
  { <<>>, <<"a">>, <<"c">>, <<"y">>,
    <<"a", ".", "y">>, <<"b", ".", "x">>, <<"a", ".", "x">>,
    <<"a", "b", "c">>, <<"b", "c", "d">>, <<"a", "b", "c", "d">>,
    <<"a", "b", "c", "X", "b", "c", "d">> }
MatchMatchers ==
  { PrefixSuffixIndexMatcher(<<>>, <<>>),
    PrefixSuffixIndexMatcher(<<"a", ".">>, <<>>),
    PrefixSuffixIndexMatcher(<<>>, <<"y">>),
    PrefixSuffixIndexMatcher(<<"a", ".">>, <<".", "x">>),
    PrefixSuffixIndexMatcher(<<"a", "b", "c">>, <<"b", "c", "d">>),
    RegexIndexMatcher(<<"a", ".", "*">>),
    RegexIndexMatcher(<<"^", "a", Escape, ".", "x", "$">>),
    RegexIndexMatcher(<<"b", "c">>),
    OrIndexMatcher(<<>>),
    OrIndexMatcher(<< PrefixSuffixIndexMatcher(<<"b">>, <<>>),
                      PrefixSuffixIndexMatcher(<<>>, <<"y">>) >>),
    OrIndexMatcher(<< RegexIndexMatcher(<<"a", ".", "*">>),
                      PrefixSuffixIndexMatcher(<<"c">>, <<>>) >>),
    OrIndexMatcher(<< OrIndexMatcher(<<>>),
                      OrIndexMatcher(<< PrefixSuffixIndexMatcher(<<"x">>, <<>>),
                                        RegexIndexMatcher(<<"a", ".", "y">>) >>) >>) }
MatchFrame ==
  /\ UNCHANGED <<gauges, counters, gauge_indices_, counter_indices_, panicked,
                 pc, mutex_, index_mutex_, value, agg, agg_mutex_>>
  /\ MonitorFrame

\* matcher.matches(name)
MatchString(M, n) ==
  /\ last' = [op |-> "matches", matcher |-> M, name |-> n,
              ret |-> matches(M, n)]
  /\ MatchFrame

\* matcher.matchesStatName(stat_name, symbol_table)
MatchStatName(M, n) ==
  /\ last' = [op |-> "matchesStatName", matcher |-> M, name |-> n,
              encoded |-> SplitFrom(n, 1, <<>>),
              ret |-> matchesStatName(M, SplitFrom(n, 1, <<>>))]
  /\ MatchFrame

\* index.tryAdd(metric)
MatchTryAdd(M, m) ==
  /\ last' = [op |-> "tryAdd", matcher |-> M, metric |-> m,
              ret |-> tryAddResult(StatsIndex(1, 1, M), m),
              index |-> tryAdd(StatsIndex(1, 1, M), m)]
  /\ MatchFrame

\* index.tryAddWithStatName(metric, symbol_table)
MatchTryAddWithStatName(M, m) ==
  /\ last' = [op |-> "tryAddWithStatName", matcher |-> M, metric |-> m,
              ret |-> tryAddWithStatNameResult(StatsIndex(1, 1, M), m),
              index |-> tryAddWithStatName(StatsIndex(1, 1, M), m)]
  /\ MatchFrame

NextMatch ==
  \/ \E M \in MatchMatchers, n \in MatchNames : MatchString(M, n)
  \/ \E M \in MatchMatchers, n \in MatchNames : MatchStatName(M, n)
  \/ \E M \in MatchMatchers, m \in Gauges \cup Counters : MatchTryAdd(M, m)
  \/ \E M \in MatchMatchers, m \in Gauges \cup Counters :
       MatchTryAddWithStatName(M, m)

SpecMatch == Init /\ [][NextMatch]_vars

\* ------------------------------------------------------------- SpecFactory
\* StatsIndexFactory: declarations (StatsIndexConfig) are turned into matchers
\* and registered, one caller at a time.  A call ends by returning ("void"),
\* by an exception the caller can catch ("throw") or by a PANIC ("panic").
PrefixSuffixMatcherConfig(p, s) == [prefix |-> p, suffix |-> s]
StringMatcherConfig(c, v) == [match_pattern_case |-> c, value |-> v]
NoPrefixSuffix == PrefixSuffixMatcherConfig(<<>>, <<>>)
NoStringMatcher == StringMatcherConfig("MATCH_PATTERN_NOT_SET", <<>>)
StatsIndexConfig(n, k, c, ps, sm) ==
  [name |-> n, metric_type |-> k, matcher_case |-> c,
   prefix_suffix |-> ps, string_matcher |-> sm]

\* Regex::Utility::replaceAllToLower, on the letters the inputs use.
replaceAllToLower(s) ==
  LET ToLower(c) ==
        IF c = "A" THEN "a" ELSE IF c = "C" THEN "c"
        ELSE IF c = "X" THEN "x" ELSE c
  IN [i \in 1..Len(s) |-> ToLower(s[i])]

Made(M) == [status |-> "ok", matcher |-> M]
Failed(how) == [status |-> how, matcher |-> NoMatcher]
\* std::make_unique<RegexIndexMatcher>(pattern): the constructor throws when
\* the pattern does not compile.
MakeRegexIndexMatcher(p) ==
  IF parseStdRegex(p) THEN Made(RegexIndexMatcher(p)) ELSE Failed("throw")

createPrefixSuffixMatcher(config) ==
  Made(PrefixSuffixIndexMatcher(config.prefix, config.suffix))

createStringMatcher(config) ==
  IF config.match_pattern_case = "kExact"
  THEN MakeRegexIndexMatcher(<<"^">> \o replaceAllToLower(config.value) \o <<"$">>)
  ELSE IF config.match_pattern_case = "kPrefix"
  THEN Made(PrefixSuffixIndexMatcher(config.value, <<>>))
  ELSE IF config.match_pattern_case = "kSuffix"
  THEN Made(PrefixSuffixIndexMatcher(<<>>, config.value))
  ELSE IF config.match_pattern_case = "kSafeRegex"
  THEN MakeRegexIndexMatcher(config.value)
  ELSE IF config.match_pattern_case = "kContains"
  THEN MakeRegexIndexMatcher(<<".", "*">> \o replaceAllToLower(config.value) \o
                             <<".", "*">>)
  ELSE Failed("panic")

createMatcher(config) ==
  IF config.matcher_case = "kPrefixSuffix"
  THEN createPrefixSuffixMatcher(config.prefix_suffix)
  ELSE IF config.matcher_case = "kStringMatcher"
  THEN createStringMatcher(config.string_matcher)
  ELSE Failed("panic")

\* The registry after the declarations from the i-th on, and how the call
\* ended; `at` is the declaration it ended in (0: after the last one).
Outcome(g, c, how, i) == [gauge |-> g, counter |-> c, status |-> how, at |-> i]
\* Mutant: the "with existing" path registers without scanning the store.
RegisteredNeverScans(map, k, n, M, existing, alive) ==
  Emplace(map, n, StatsIndex(NewId(k, n), n, M))
\* registerGaugeIndex[WithExisting] / registerCounterIndex[WithExisting]
Registered(map, k, n, M, existing, alive) ==
  Emplace(map, n,
          IF existing THEN Backfill(StatsIndex(NewId(k, n), n, M), alive)
          ELSE StatsIndex(NewId(k, n), n, M))

RECURSIVE CreateFrom(_, _, _, _, _)
\* Mutant: the GAUGE case has no break and falls through into the COUNTER case.
CreateFromFallThrough(cfg, i, g, c, existing) ==
  IF i > Len(cfg) THEN Outcome(g, c, "void", 0)
  ELSE LET made == createMatcher(cfg[i])
           n == cfg[i].name
       IN IF made.status # "ok" THEN Outcome(g, c, made.status, i)
          ELSE IF cfg[i].metric_type = "GAUGE"
          THEN IF Exists(g, n) \/ Exists(c, n) THEN Outcome(g, c, "panic", i)
               ELSE CreateFrom(cfg, i + 1,
                               Registered(g, "gauge", n, made.matcher,
                                          existing, gauges),
                               Registered(c, "counter", n, made.matcher,
                                          existing, counters),
                               existing)
          ELSE IF cfg[i].metric_type = "COUNTER"
          THEN IF Exists(c, n) THEN Outcome(g, c, "panic", i)
               ELSE CreateFrom(cfg, i + 1, g,
                               Registered(c, "counter", n, made.matcher,
                                          existing, counters),
                               existing)
          ELSE Outcome(g, c, "panic", i)
CreateFrom(cfg, i, g, c, existing) ==
  IF i > Len(cfg) THEN Outcome(g, c, "void", 0)
  ELSE LET made == createMatcher(cfg[i])
           n == cfg[i].name
       IN IF made.status # "ok" THEN Outcome(g, c, made.status, i)
          ELSE IF cfg[i].metric_type = "GAUGE"
          THEN IF Exists(g, n) THEN Outcome(g, c, "panic", i)
               ELSE CreateFrom(cfg, i + 1,
                               Registered(g, "gauge", n, made.matcher,
                                          existing, gauges),
                               c, existing)
          ELSE IF cfg[i].metric_type = "COUNTER"
          THEN IF Exists(c, n) THEN Outcome(g, c, "panic", i)
               ELSE CreateFrom(cfg, i + 1, g,
                               Registered(c, "counter", n, made.matcher,
                                          existing, counters),
                               existing)
          ELSE Outcome(g, c, "panic", i)

FactoryFrame ==
  /\ UNCHANGED <<gauges, counters, pc, mutex_, index_mutex_, value, agg,
                 agg_mutex_>>
  /\ MonitorFrame
FactoryCall(op, cfg, existing) ==
  /\ ~panicked
  /\ LET r == CreateFrom(cfg, 1, gauge_indices_, counter_indices_, existing)
     IN /\ gauge_indices_' = r.gauge
        /\ counter_indices_' = r.counter
        /\ panicked' = (r.status = "panic")
        /\ last' = [op |-> op, config |-> cfg, ret |-> r.status, at |-> r.at]
  /\ FactoryFrame

createIndicesFromConfig(cfg) ==
  FactoryCall("createIndicesFromConfig", cfg, FALSE)
createIndicesFromConfigWithExisting(cfg) ==
  FactoryCall("createIndicesFromConfigWithExisting", cfg, TRUE)

\* The declarations configurations are made of: well-formed ones of both
\* kinds, and one for each way a declaration can be faulty.
GoodDecls ==
  { StatsIndexConfig(1, "GAUGE", "kPrefixSuffix",
                     PrefixSuffixMatcherConfig(<<"a", ".">>, <<>>),
                     NoStringMatcher),
    StatsIndexConfig(2, "GAUGE", "kStringMatcher", NoPrefixSuffix,
                     StringMatcherConfig("kSuffix", <<"x">>)),
    StatsIndexConfig(1, "COUNTER", "kStringMatcher", NoPrefixSuffix,
                     StringMatcherConfig("kSafeRegex", <<"a", ".", "*">>)),
    StatsIndexConfig(2, "COUNTER", "kStringMatcher", NoPrefixSuffix,
                     StringMatcherConfig("kExact", <<"C">>)) }
FaultyDecls ==
  { StatsIndexConfig(2, "GAUGE", "MATCHER_NOT_SET", NoPrefixSuffix,
                     NoStringMatcher),
    StatsIndexConfig(2, "COUNTER", "kStringMatcher", NoPrefixSuffix,
                     NoStringMatcher),
    StatsIndexConfig(2, "METRIC_TYPE_UNSPECIFIED", "kPrefixSuffix",
                     PrefixSuffixMatcherConfig(<<>>, <<"y">>), NoStringMatcher),
    StatsIndexConfig(2, "GAUGE", "kStringMatcher", NoPrefixSuffix,
                     StringMatcherConfig("kSafeRegex", <<"(", "a">>)) }
ConfigInputs ==
  {<<>>} \cup {<<d>> : d \in GoodDecls \cup FaultyDecls}
         \cup {<<d, e>> : d \in GoodDecls, e \in GoodDecls \cup FaultyDecls}

NextFactory ==
  \/ \E g \in Gauges : StoreCreateGauge(g)
  \/ \E c \in Counters : StoreCreateCounter(c)
  \/ \E cfg \in ConfigInputs : createIndicesFromConfig(cfg)
  \/ \E cfg \in ConfigInputs : createIndicesFromConfigWithExisting(cfg)

SpecFactory == Init /\ [][NextFactory]_vars

\* --------------------------------------------------------- SpecStringMatch
\* createStringMatcher on exact / contains configurations, and the matcher it
\* returns applied to a name.
StringMatchInputs ==
  {StringMatcherConfig(c, v) :
     c \in {"kExact", "kContains"},
     v \in {<<"a">>, <<"b", "c">>, <<"a", ".", "y">>, <<"a", ".", "c">>,
            <<".">>, <<"C">>, <<"X">>}}
StringMatch(config, n) ==
  /\ ~panicked
  /\ LET made == createStringMatcher(config)
     IN /\ made.status = "ok"
        /\ last' = [op |-> "createStringMatcher", config |-> config,
                    name |-> n, ret |-> matches(made.matcher, n)]
  /\ MatchFrame

NextStringMatch ==
  \E config \in StringMatchInputs, n \in MatchNames : StringMatch(config, n)

SpecStringMatch == Init /\ [][NextStringMatch]_vars

\* ------------------------------------------------------------- SpecMonitor
\* IdleActivityMonitor: the overload manager constructs it from a config, a
\* time source and a stats reader, and calls updateResourceUsage from time to
\* time; each call reads the clock and the two request counts once and
\* reports a pressure (0.0 or 1.0, written 0 and 1).
\* absl::optional: nullopt is <<>>, a value v is <<v>>.

\* The constructor's member initialisers; reader is FALSE for the default
\* argument stats_reader = nullptr.
IdleActivityMonitor(config, reader) ==
  [constructed |-> TRUE,
   active_requests_threshold_ |-> config.active_requests_threshold,
   downstream_threshold_ |->
     IF config.downstream_requests_threshold > 0
     THEN <<config.downstream_requests_threshold>> ELSE <<>>,
   upstream_threshold_ |->
     IF config.upstream_requests_threshold > 0
     THEN <<config.upstream_requests_threshold>> ELSE <<>>,
   sustained_duration_ |-> config.sustained_idle_duration,
   stats_reader_ |-> reader,
   idle_start_time_ |-> <<>>]

\* Mutant: the total threshold is inclusive.
isBelowThresholdInclusive(mon, downstream, upstream) ==
  IF ~mon.stats_reader_ THEN FALSE
  ELSE IF Wrap(downstream + upstream) <= mon.active_requests_threshold_ THEN TRUE
  ELSE IF mon.downstream_threshold_ # <<>> /\
          downstream < mon.downstream_threshold_[1] THEN TRUE
  ELSE IF mon.upstream_threshold_ # <<>> /\
          upstream < mon.upstream_threshold_[1] THEN TRUE
  ELSE FALSE
\* Mutant: the separate thresholds are not looked at.
isBelowThresholdTotalOnly(mon, downstream, upstream) ==
  IF ~mon.stats_reader_ THEN FALSE
  ELSE IF Wrap(downstream + upstream) < mon.active_requests_threshold_ THEN TRUE
  ELSE FALSE
isBelowThreshold(mon, downstream, upstream) ==
  IF ~mon.stats_reader_ THEN FALSE
  ELSE IF Wrap(downstream + upstream) < mon.active_requests_threshold_ THEN TRUE
  ELSE IF mon.downstream_threshold_ # <<>> /\
          downstream < mon.downstream_threshold_[1] THEN TRUE
  ELSE IF mon.upstream_threshold_ # <<>> /\
          upstream < mon.upstream_threshold_[1] THEN TRUE
  ELSE FALSE

\* Mutant: the pressure is reported without waiting for the duration.
resource_pressure_NoWait(mon, below_threshold, now) ==
  IF below_threshold /\ mon.idle_start_time_ # <<>> THEN 1 ELSE 0
\* usage.resource_pressure_ as updateResourceUsage sets it.
resource_pressure_(mon, below_threshold, now) ==
  LET \* duration_cast<milliseconds>(now - *idle_start_time_)
      idle_duration == (now - mon.idle_start_time_[1]) \div 1000
  IN IF below_threshold
     THEN IF mon.idle_start_time_ = <<>> THEN 0
          ELSE IF idle_duration >= mon.sustained_duration_ THEN 1
          ELSE 0
     ELSE 0

\* Mutant: idle_start_time_ is not reset by activity.
idle_start_time_Kept(mon, below_threshold, now) ==
  IF mon.idle_start_time_ = <<>> /\ below_threshold
  THEN <<now>> ELSE mon.idle_start_time_
\* idle_start_time_ as updateResourceUsage leaves it.
idle_start_time_(mon, below_threshold, now) ==
  IF below_threshold
  THEN IF mon.idle_start_time_ = <<>> THEN <<now>>
       ELSE mon.idle_start_time_
  ELSE <<>>

MonitorRest ==
  UNCHANGED <<gauges, counters, gauge_indices_, counter_indices_, pc, mutex_,
              index_mutex_, value, agg, agg_mutex_, stats_reader,
              root_store>>

\* The configs and readers monitors are constructed with.
MonitorConfigs ==
  {[active_requests_threshold |-> a, downstream_requests_threshold |-> d,
    upstream_requests_threshold |-> u, sustained_idle_duration |-> ms] :
     a \in {0, 1}, d \in {0, 1}, u \in {0, 1}, ms \in {0, 1000, 2000}}

\* The constructor.  ASSERT(sustained_duration_.count() >= 1000) ends the
\* process in a build with assertions and is no code in a build without.
MonitorConstruct(config, reader) ==
  /\ ~panicked /\ monitor = NoMonitor
  /\ \/ /\ monitor' = IdleActivityMonitor(config, reader)
        /\ UNCHANGED panicked
     \/ /\ config.sustained_idle_duration < 1000
        /\ panicked' = TRUE
        /\ UNCHANGED monitor
  /\ last' = [op |-> "IdleActivityMonitor", config |-> config]
  /\ UNCHANGED clock
  /\ MonitorRest

\* Time passes.
Advances == {999999, 1000000}
ClockAdvance(d) ==
  /\ ~panicked
  /\ clock + d <= MaxSeconds * 1000000
  /\ clock' = clock + d
  /\ UNCHANGED <<monitor, last, panicked>>
  /\ MonitorRest

\* The previous update read counts that were below threshold.
PreviousBelow == last.op = "updateResourceUsage" /\ last.below_threshold
\* updateResourceUsage(callbacks): downstream and upstream are what the stats
\* reader returns in this call.  The record keeps what was read and reported
\* (callbacks.onSuccess(usage)) and, from the readings alone, where the
\* current run of below-threshold updates began (since, first) and whether a
\* run was ever ended by activity (spiked).
updateResourceUsage(downstream, upstream) ==
  /\ ~panicked /\ monitor # NoMonitor
  /\ monitor.stats_reader_ \/ (downstream = 0 /\ upstream = 0)
  /\ LET now == clock
         below_threshold == isBelowThreshold(monitor, downstream, upstream)
     IN /\ monitor' =
             [monitor EXCEPT
                !.idle_start_time_ = idle_start_time_(monitor, below_threshold, now)]
        /\ last' =
             [op |-> "updateResourceUsage",
              downstream |-> downstream, upstream |-> upstream,
              below_threshold |-> below_threshold, now |-> now,
              resource_pressure_ |->
                resource_pressure_(monitor, below_threshold, now),
              since |-> IF ~below_threshold THEN 0 - 1
                        ELSE IF PreviousBelow THEN last.since ELSE now,
              first |-> below_threshold /\ ~PreviousBelow,
              spiked |-> \/ last.op = "updateResourceUsage" /\ last.spiked
                         \/ ~below_threshold /\ PreviousBelow]
  /\ UNCHANGED <<clock, panicked>>
  /\ MonitorRest

NextMonitor ==
  \/ \E config \in MonitorConfigs, reader \in BOOLEAN :
       MonitorConstruct(config, reader)
  \/ \E d \in Advances : ClockAdvance(d)
  \/ \E downstream \in Values, upstream \in Values :
       updateResourceUsage(downstream, upstream)

SpecMonitor == Init /\ [][NextMonitor]_vars

\* -------------------------------------------------------------- SpecReader
\* ActivityStatsReaderImpl over the gauges of the root store.  The store's
\* gauges are numbered as in StatNames; root_store[i] is <<>> while gauge i
\* does not exist and <<v>> while it exists with value v.  A Gauge* is the
\* gauge's number, nullptr is 0.  The two server gauges live as long as the
\* server once they are created; listeners and clusters come and go.
StatNames ==
  << <<"server", ".", "total_downstream_rq_active">>,
     <<"server", ".", "total_upstream_rq_active">>,
     <<"http", ".", "l", ".", "downstream_rq_active">>,
     <<"cluster", ".", "c", ".", "upstream_rq_active">>,
     <<"server", ".", "l", ".", "downstream_rq_active">> >>
Stats == 1..Len(StatNames)
\* store().iterate(...) finds the gauge of that name, or leaves nullptr.
Lookup(n) ==
  IF \E i \in Stats : root_store[i] # <<>> /\ StatNames[i] = n
  THEN CHOOSE i \in Stats : root_store[i] # <<>> /\ StatNames[i] = n ELSE 0

\* initializeGauges: nothing is looked up once gauges_initialized_ is set.
initializeGauges(r) ==
  IF r.gauges_initialized_ THEN r
  ELSE [gauges_initialized_ |-> TRUE,
        upstream_gauge_ |->
          Lookup(<<"server", ".", "total_upstream_rq_active">>),
        downstream_gauge_ |->
          Lookup(<<"server", ".", "total_downstream_rq_active">>)]

\* total += gauge->value() over the gauges the name test accepts.
RECURSIVE FallbackFrom(_, _)
FallbackFrom(accepts, i) ==
  IF i > Len(StatNames) THEN 0
  ELSE Wrap((IF root_store[i] # <<>> /\ i \in accepts
             THEN root_store[i][1] ELSE 0) + FallbackFrom(accepts, i + 1))
downstreamActiveRequestsFallback ==
  FallbackFrom({i \in Stats :
                  /\ EndsWith(StatNames[i], <<".", "downstream_rq_active">>)
                  /\ ~StartsWith(StatNames[i], <<"server", ".">>)}, 1)
upstreamActiveRequestsFallback ==
  FallbackFrom({i \in Stats :
                  /\ StartsWith(StatNames[i], <<"cluster", ".">>)
                  /\ EndsWith(StatNames[i], <<".", "upstream_rq_active">>)}, 1)

ReaderFrame ==
  UNCHANGED <<gauges, counters, gauge_indices_, counter_indices_, panicked,
              pc, mutex_, index_mutex_, value, agg, agg_mutex_, monitor, clock>>

downstreamActiveRequests ==
  /\ stats_reader' = initializeGauges(stats_reader)
  /\ last' = [op |-> "downstreamActiveRequests",
              ret |-> IF stats_reader'.downstream_gauge_ # 0
                      THEN root_store[stats_reader'.downstream_gauge_][1]
                      ELSE downstreamActiveRequestsFallback]
  /\ UNCHANGED root_store
  /\ ReaderFrame

upstreamActiveRequests ==
  /\ stats_reader' = initializeGauges(stats_reader)
  /\ last' = [op |-> "upstreamActiveRequests",
              ret |-> IF stats_reader'.upstream_gauge_ # 0
                      THEN root_store[stats_reader'.upstream_gauge_][1]
                      ELSE upstreamActiveRequestsFallback]
  /\ UNCHANGED root_store
  /\ ReaderFrame

\* The stats system creates gauge i (value 0), sets it, or deletes the gauge
\* of a listener or cluster.
GaugeCreated(i) ==
  /\ root_store[i] = <<>>
  /\ root_store' = [root_store EXCEPT ![i] = <<0>>]
  /\ last' = [op |-> "create", ret |-> 0]
  /\ UNCHANGED stats_reader
  /\ ReaderFrame
GaugeChanged(i, v) ==
  /\ root_store[i] # <<>> /\ root_store[i] # <<v>>
  /\ root_store' = [root_store EXCEPT ![i] = <<v>>]
  /\ last' = [op |-> "set", ret |-> 0]
  /\ UNCHANGED stats_reader
  /\ ReaderFrame
GaugeDeleted(i) ==
  /\ root_store[i] # <<>>
  /\ StatNames[i] \notin {<<"server", ".", "total_downstream_rq_active">>,
                           <<"server", ".", "total_upstream_rq_active">>}
  /\ root_store' = [root_store EXCEPT ![i] = <<>>]
  /\ last' = [op |-> "delete", ret |-> 0]
  /\ UNCHANGED stats_reader
  /\ ReaderFrame

NextReader ==
  \/ downstreamActiveRequests
  \/ upstreamActiveRequests
  \/ \E i \in Stats : GaugeCreated(i)
  \/ \E i \in Stats, v \in Values : GaugeChanged(i, v)
  \/ \E i \in Stats : GaugeDeleted(i)

SpecReader == Init /\ [][NextReader]_vars

\* ------------------------------------------------------------------ claims
MembersOf(map, n) == Members(map[n].metrics_set_)
NoDuplicates(map) ==
  \A n \in IndexNames :
    map[n] # NoIndex => Len(map[n].metrics_set_) = Cardinality(MembersOf(map, n))
PartitionNext(k) == IF k = "gauge" THEN gauge_indices_' ELSE counter_indices_'

\* C1: in every reachable state, every metric in the member set of every
\* registered index (gauge or counter partition) has a name that the index's
\* own matcher accepts.
MembersAccepted(map) ==
  \A n \in IndexNames :
    map[n] # NoIndex =>
      \A m \in MembersOf(map, n) : matches(map[n].matcher_, name(m))
C1_MembersAcceptedByMatcher ==
  MembersAccepted(gauge_indices_) /\ MembersAccepted(counter_indices_)

\* C1 witness: tryAddWithStatName has just inserted a gauge into an index that
\* now holds two gauges, while a counter index holds a counter.
C1_Witness ==
  /\ last.op = "tryAddWithStatName" /\ last.ret = "true" /\ last.changed = 1
  /\ last.kind = "gauge"
  /\ Cardinality(MembersOf(gauge_indices_, last.index)) >= 2
  /\ \E n \in IndexNames :
       counter_indices_[n] # NoIndex /\ MembersOf(counter_indices_, n) # {}

\* What a creation fan-out over `old` must leave in `new` for metric m.
CreatedPost(old, new, m) ==
  \A n \in IndexNames :
    IF old[n] = NoIndex THEN new[n] = NoIndex
    ELSE /\ new[n] # NoIndex
         /\ new[n].matcher_ = old[n].matcher_
         /\ IF matches(old[n].matcher_, name(m))
            THEN MembersOf(new, n) = MembersOf(old, n) \cup {m}
            ELSE new[n] = old[n] /\ m \notin MembersOf(new, n)

\* C2: onGaugeCreated(m) / onCounterCreated(m) adds m to every index of its
\* partition whose matcher accepts m's name (all of them, not only the first)
\* and leaves every index whose matcher rejects it as it was, without m.
C2_CreatedReachesEveryAcceptingIndex ==
  [][ /\ last'.op = "onGaugeCreated" =>
           CreatedPost(gauge_indices_, gauge_indices_', last'.metric)
      /\ last'.op = "onCounterCreated" =>
           CreatedPost(counter_indices_, counter_indices_', last'.metric) ]_vars

\* C2 witness: onGaugeCreated has just added its gauge to two indices at once.
C2_Witness ==
  /\ last.op = "onGaugeCreated" /\ last.changed = 2
  /\ \A n \in IndexNames :
       gauge_indices_[n] # NoIndex /\ last.metric \in MembersOf(gauge_indices_, n)

\* What a deletion fan-out over `old` must leave in `new` for metric m.
DeletedPost(old, new, m) ==
  \A n \in IndexNames :
    IF old[n] = NoIndex THEN new[n] = NoIndex
    ELSE /\ new[n] # NoIndex
         /\ new[n].matcher_ = old[n].matcher_
         /\ MembersOf(new, n) = MembersOf(old, n) \ {m}
         /\ Len(new[n].metrics_set_) = Cardinality(MembersOf(new, n))

\* C3: when onGaugeDeleted(m) / onCounterDeleted(m) has returned (alone or as
\* the first half of the store's deletion), no index of the partition contains
\* m and every index holds exactly its other members.
C3_DeletedLeavesNoIndexHoldingMetric ==
  [][ /\ last'.op \in {"onGaugeDeleted", "deleteGauge"} =>
           DeletedPost(gauge_indices_, gauge_indices_', last'.metric)
      /\ last'.op \in {"onCounterDeleted", "deleteCounter"} =>
           DeletedPost(counter_indices_, counter_indices_', last'.metric) ]_vars

\* C3 witness: onGaugeDeleted has just removed its gauge from two indices, one
\* of which still holds another gauge.
C3_Witness ==
  /\ last.op = "onGaugeDeleted" /\ last.changed = 2
  /\ \E n \in IndexNames : MembersOf(gauge_indices_, n) # {}

\* C4: once onGaugeDeleted(m) has returned, and until and after the base
\* store releases m, no registered gauge index holds a reference to m, under
\* every interleaving with registerGaugeIndexWithExisting, creations and
\* deletions on other threads.
C4_NoIndexHoldsDeletedMetric ==
  /\ \A t \in Threads :
       pc[t].at = "release" =>
         \A n \in IndexNames :
           gauge_indices_[n] # NoIndex =>
             pc[t].metric \notin MembersOf(gauge_indices_, n)
  /\ \A n \in IndexNames :
       gauge_indices_[n] # NoIndex => MembersOf(gauge_indices_, n) \subseteq gauges

\* C5: registerGaugeIndexWithExisting(n, M) / the counter form, when it
\* returns an index, returns one that holds the matcher M and whose members
\* are exactly the metrics of its kind alive in the base store that M accepts.
C5_WithExistingBackfillsExactly ==
  [][ \A n \in IndexNames, M \in MatcherInputs :
        /\ (registerGaugeIndexWithExisting(n, M) /\ last'.ret = "ref") =>
             /\ gauge_indices_'[n] # NoIndex
             /\ gauge_indices_'[n].matcher_ = M
             /\ MembersOf(gauge_indices_', n) =
                  {g \in gauges : matches(M, name(g))}
             /\ NoDuplicates(gauge_indices_')
        /\ (registerCounterIndexWithExisting(n, M) /\ last'.ret = "ref") =>
             /\ counter_indices_'[n] # NoIndex
             /\ counter_indices_'[n].matcher_ = M
             /\ MembersOf(counter_indices_', n) =
                  {c \in counters : matches(M, name(c))}
             /\ NoDuplicates(counter_indices_') ]_vars

\* C5 witness: registerGaugeIndexWithExisting has just returned an index that
\* took one of two existing gauges and left the other out.
C5_Witness ==
  /\ last.op = "registerGaugeIndexWithExisting" /\ last.ret = "ref"
  /\ MembersOf(gauge_indices_, last.index) # {}
  /\ gauges \ MembersOf(gauge_indices_, last.index) # {}

\* C6: no member set ever holds a metric twice, and tryAdd (either form) of a
\* matching metric that is already a member returns true and leaves the index
\* (hence its size) unchanged.
C6_SetSemanticsIdempotentAdd ==
  [][ /\ NoDuplicates(gauge_indices_') /\ NoDuplicates(counter_indices_')
      /\ (/\ last'.op \in {"tryAdd", "tryAddWithStatName"}
          /\ last'.metric \in MembersOf(Partition(last'.kind), last'.index)
          /\ matches(Partition(last'.kind)[last'.index].matcher_,
                     name(last'.metric))) =>
           /\ last'.ret = "true"
           /\ UNCHANGED <<gauge_indices_, counter_indices_>> ]_vars

\* C6 witness: tryAdd has just returned true for a gauge that was already the
\* only member, and the index still has size 1.
C6_Witness ==
  /\ last.op = "tryAdd" /\ last.ret = "true" /\ last.changed = 0
  /\ last.kind = "gauge"
  /\ size(gauge_indices_[last.index]) = 1

\* C7: tryAdd of a metric whose name the index's matcher rejects returns
\* false and changes nothing: no member set, no index, no panic.
C7_RejectedAddIsNoOp ==
  [][ (/\ last'.op = "tryAdd"
       /\ ~matches(Partition(last'.kind)[last'.index].matcher_,
                   name(last'.metric))) =>
        /\ last'.ret = "false"
        /\ UNCHANGED <<gauge_indices_, counter_indices_, gauges, counters,
                       panicked>> ]_vars

\* C7 witness: tryAdd has just returned false on an index that holds a member.
C7_Witness ==
  /\ last.op = "tryAdd" /\ last.ret = "false" /\ last.kind = "gauge"
  /\ size(gauge_indices_[last.index]) >= 1
  /\ last.metric \notin MembersOf(gauge_indices_, last.index)

\* C8: remove(m) on an index erases exactly m: the other members stay, each
\* once; a metric that was no member leaves the index unchanged; every other
\* index of both partitions and the base store are untouched.
C8_RemoveErasesExactlyOne ==
  [][ last'.op = "remove" =>
        LET k == last'.kind
            n == last'.index
            m == last'.metric
        IN /\ PartitionNext(k)[n] # NoIndex
           /\ PartitionNext(k)[n].matcher_ = Partition(k)[n].matcher_
           /\ MembersOf(PartitionNext(k), n) = MembersOf(Partition(k), n) \ {m}
           /\ NoDuplicates(PartitionNext(k))
           /\ m \notin MembersOf(Partition(k), n) =>
                PartitionNext(k)[n] = Partition(k)[n]
           /\ \A j \in Kinds, i \in IndexNames :
                <<j, i>> # <<k, n>> => PartitionNext(j)[i] = Partition(j)[i]
           /\ UNCHANGED <<gauges, counters, panicked>> ]_vars

\* C8 witness: remove has just erased a member of an index that still holds
\* another one.
C8_Witness ==
  /\ last.op = "remove" /\ last.changed = 1 /\ last.kind = "gauge"
  /\ size(gauge_indices_[last.index]) >= 1

\* What a registration of thread t that finds `old` must return and leave
\* in `new`.
RegisteredPost(t, k, old, new) ==
  IF old[pc[t].index] # NoIndex
  THEN /\ panicked' /\ pc'[t].ret = "panic"
       /\ new = old
  ELSE /\ ~panicked' /\ pc'[t].ret = "ref"
       /\ new[pc[t].index] =
            StatsIndex(NewId(k, pc[t].index), pc[t].index, pc[t].matcher)
       /\ \A i \in IndexNames \ {pc[t].index} : new[i] = old[i]

C10_PartitionsIndependent ==
  [][ /\ last'.kind = "gauge" => counter_indices_' = counter_indices_
      /\ last'.kind = "counter" => gauge_indices_' = gauge_indices_
      /\ (/\ last'.op \in {"registerCounterIndex",
                           "registerCounterIndexWithExisting"}
          /\ counter_indices_[last'.index] = NoIndex) =>
           last'.ret = "ref" /\ ~panicked' /\ counter_indices_'[last'.index] # NoIndex
      /\ (/\ last'.op \in {"registerGaugeIndex",
                           "registerGaugeIndexWithExisting"}
          /\ gauge_indices_[last'.index] = NoIndex) =>
           last'.ret = "ref" /\ ~panicked' /\ gauge_indices_'[last'.index] # NoIndex
    ]_vars

\* C10 witness: one name is registered in both partitions, the gauge index
\* holds a gauge, and onCounterCreated has just added a counter to the counter
\* index.
C10_Witness ==
  /\ last.op = "onCounterCreated" /\ last.changed = 1
  /\ \E n \in IndexNames :
       /\ gauge_indices_[n] # NoIndex /\ counter_indices_[n] # NoIndex
       /\ MembersOf(gauge_indices_, n) # {}
       /\ last.metric \in MembersOf(counter_indices_, n)

\* ---- C11
LookupKinds == {"getGaugeIndex", "getCounterIndex"}
RemoveKinds == {"removeGaugeIndex", "removeCounterIndex"}
RegisterKinds == {"registerGaugeIndex", "registerCounterIndex"}
OtherPartitionUnchanged(k) ==
  IF k = "gauge" THEN UNCHANGED counter_indices_ ELSE UNCHANGED gauge_indices_

\* C11: getGaugeIndex(n) / getCounterIndex(n) returns the index object its
\* partition holds under n, the one the registration of n returned, and null
\* when the partition has no entry for n, and changes nothing;
\* removeGaugeIndex(n) / removeCounterIndex(n) returns true exactly when the
\* partition held n, leaves no entry for n, lowers the partition's index count
\* by one when it returns true and changes nothing else; a lookup of n right
\* after returns null and a second removal of n returns false.
C11_LookupAndRemove ==
  [][ /\ (last'.op \in RegisterKinds /\ last'.ret = "ref") =>
           Find(PartitionNext(last'.kind), last'.index) = last'.ref
      /\ last'.op \in LookupKinds =>
           /\ UNCHANGED <<gauge_indices_, counter_indices_, gauges, counters>>
           /\ IF Partition(last'.kind)[last'.index] # NoIndex
              THEN /\ last'.ret = "ref"
                   /\ last'.ref = Partition(last'.kind)[last'.index].id
                   /\ \A n \in IndexNames \ {last'.index} :
                        Partition(last'.kind)[n] # NoIndex =>
                          Partition(last'.kind)[n].id # last'.ref
              ELSE last'.ret = "null" /\ last'.ref = 0
      /\ last'.op \in RemoveKinds =>
           /\ last'.ret = BoolStr(Partition(last'.kind)[last'.index] # NoIndex)
           /\ PartitionNext(last'.kind)[last'.index] = NoIndex
           /\ \A n \in IndexNames \ {last'.index} :
                PartitionNext(last'.kind)[n] = Partition(last'.kind)[n]
           /\ OtherPartitionUnchanged(last'.kind)
           /\ IndexCount(PartitionNext(last'.kind)) =
                IndexCount(Partition(last'.kind)) -
                  (IF last'.ret = "true" THEN 1 ELSE 0)
      /\ (/\ last.op \in RemoveKinds /\ last'.kind = last.kind
          /\ last'.index = last.index) =>
           /\ last'.op \in RemoveKinds => last'.ret = "false"
           /\ last'.op \in LookupKinds => last'.ret = "null" ]_vars

\* C11 witness: an index that has members was removed (true) while another
\* index of the partition and a counter index of the same name stay.
C11_Witness ==
  /\ last.op = "removeGaugeIndex" /\ last.ret = "true"
  /\ gauge_indices_[last.index] = NoIndex
  /\ counter_indices_[last.index] # NoIndex
  /\ \E n \in IndexNames :
       gauge_indices_[n] # NoIndex /\ MembersOf(gauge_indices_, n) # {}

\* ---- C12
\* Thread t cannot step until thread u releases the mutex t is waiting for.
WaitsFor(t, u) ==
  /\ u # 0
  /\ \/ pc[t].at \in {"lock", "hook", "cb_get"} /\ mutex_ = u
     \/ pc[t].at = "index_lock" /\ index_mutex_[pc[t].index] = u
     \/ pc[t].at = "cb_size" /\ index_mutex_[Other(pc[t].index)] = u
     \/ /\ pc[t].at = "fanout" /\ Unvisited(t) # {}
        /\ NeedsIndexLock(t) /\ index_mutex_[NextIndex(t)] = u

\* C12: with forEach callbacks that do not call into the index they iterate,
\* no interleaving of registrations, lookups, notifications and index queries
\* reaches a state in which threads wait for each other's mutexes in a cycle
\* (such threads never return from their calls).
C12_NoDeadlock ==
  \A t, u \in Threads : ~(WaitsFor(t, u) /\ WaitsFor(u, t))

\* ---- C13
\* The registered gauge indices whose member set the notification thread t
\* runs is about (created: inserts into; deleted: erases from).
Targets(t) ==
  {n \in IndexNames :
     Exists(gauge_indices_, n) /\ tryAddResult(gauge_indices_[n], pc[t].metric)}
DisjointNotifications(t, u) ==
  /\ t # u
  /\ pc[t].op \in {"onGaugeCreated", "onGaugeDeleted"}
  /\ pc[u].op \in {"onGaugeCreated", "onGaugeDeleted"}
  /\ Targets(t) # {} /\ Targets(u) # {} /\ Targets(t) \cap Targets(u) = {}

\* C13 as claimed: notification threads that update different indices do not
\* contend on one global lock, so that both can be inside their notification
\* at once: a notification is never kept waiting for the store's mutex_ by a
\* notification that updates other indices only.
C13_NotificationsDoNotContend ==
  \A t, u \in Threads :
    ~(/\ DisjointNotifications(t, u)
      /\ pc[t].at = "fanout"
      /\ pc[u].at = "hook" /\ WaitsFor(u, t))

\* C13, amended: at most one thread is inside the loop of a created/deleted
\* notification at any time (the store's mutex_ is held for the whole loop),
\* whatever indices the notifications update.
C13_NotificationsSerialised ==
  \A t, u \in Threads :
    (t # u /\ pc[t].at = "fanout") => pc[u].at # "fanout"

\* C13 witness: one thread has updated its index inside a notification while
\* the other thread's notification, for a metric of a different index, waits.
C13_Witness ==
  \E t, u \in Threads :
    /\ DisjointNotifications(t, u)
    /\ pc[t].at = "fanout" /\ pc[t].visited \cap Targets(t) # {}
    /\ pc[u].at = "hook" /\ mutex_ = t

\* ---- C14
Iterating(t) == pc[t].op = "forEach" /\ pc[t].at \in {"iter", "cb_size", "cb_get"}

\* C14: from the moment forEach has taken the index's mutex_ until it returns,
\* no step of any thread changes the index's member set (a tryAdd, remove or
\* clear of another thread takes effect before or after), and by the time
\* forEach returns its callbacks were handed exactly the members the index
\* held when the mutex_ was taken, each once, in the set's order.
C14_ForEachHoldsIndexLock ==
  [][ \A t \in Threads :
        /\ Iterating(t) =>
             /\ gauge_indices_'[pc[t].index] = gauge_indices_[pc[t].index]
             /\ gauge_indices_[pc[t].index].metrics_set_ = pc[t].snap
             /\ index_mutex_[pc[t].index] = t
        /\ (Iterating(t) /\ pc'[t].at = "done") =>
             /\ pc[t].seen = pc[t].snap
             /\ Len(pc[t].snap) = Cardinality(Members(pc[t].snap)) ]_vars

\* C14 witness: a forEach is between its first and its second callback while
\* a notification of another thread waits to update the same index.
C14_Witness ==
  \E t, u \in Threads :
    /\ Iterating(t) /\ pc[t].at = "iter" /\ pc[t].pos = 2
    /\ Len(pc[t].snap) = 2
    /\ pc[u].at = "fanout" /\ WaitsFor(u, t)
    /\ NextIndex(u) = pc[t].index

\* ---- C15 .. C20: what the queries on the aggregated index must return
\* Thread t's call of op returns in this step.
Returned(t, op) == pc[t].op = op /\ pc[t].at = "iter" /\ pc'[t].at = "done"
RECURSIVE SumValues(_)
SumValues(S) == IF S = <<>> THEN 0 ELSE value[Head(S)] + SumValues(Tail(S))
ValuesOf(S) == {value[S[i]] : i \in 1..Len(S)}
MinValue(S) == CHOOSE v \in ValuesOf(S) : \A w \in ValuesOf(S) : v <= w
MaxValue(S) == CHOOSE v \in ValuesOf(S) : \A w \in ValuesOf(S) : v >= w
RECURSIVE FoldValues(_, _, _)
FoldValues(f, acc, S) ==
  IF S = <<>> THEN acc ELSE FoldValues(f, Apply(f, acc, value[Head(S)]), Tail(S))
\* The position of the first member at which the callback returns false, or 0.
FirstFalse(cb, stop, S) ==
  IF \A i \in 1..Len(S) : fn(cb, stop, S[i]) THEN 0
  ELSE CHOOSE i \in 1..Len(S) :
         ~fn(cb, stop, S[i]) /\ \A j \in 1..(i - 1) : fn(cb, stop, S[j])
EachOnce(S) == Len(S) = Cardinality(Members(S))

\* C15: forEach(fn) never changes the member set; when it returns, fn has
\* been invoked on the members in the set's order, once each, up to and
\* including the first member for which fn returned false, and on no member
\* after it; it returns false if there is such a member and true otherwise
\* (also for the empty index, where fn is not invoked).
C15_ForEachVisitsUntilFalse ==
  [][ \A t \in QueryThreads :
        /\ (pc[t].op = "forEach" /\ pc[t].at = "iter") => agg' = agg
        /\ Returned(t, "forEach") =>
             LET S == agg.metrics_set_
                 k == FirstFalse(pc[t].cb, pc[t].metric, S)
             IN /\ EachOnce(pc'[t].seen)
                /\ IF k = 0
                   THEN pc'[t].ret = "true" /\ pc'[t].seen = S
                   ELSE pc'[t].ret = "false" /\ pc'[t].seen = SubSeq(S, 1, k) ]_vars

\* C15 witness: forEach returned false after its first callback, on an index
\* with two members.
C15_Witness ==
  \E t \in QueryThreads :
    /\ pc[t].op = "forEach" /\ pc[t].at = "done" /\ pc[t].ret = "false"
    /\ Len(pc[t].seen) = 1 /\ Len(agg.metrics_set_) = 2
    /\ pc[t].snap = agg.metrics_set_

\* C16: metrics() returns the members the index holds at the call, each once,
\* and does not change the index; the returned vector is not changed by any
\* later tryAdd, remove or clear on the index.
C16_SnapshotIsACopy ==
  [][ \A t \in QueryThreads :
        /\ (pc'[t].op = "metrics" /\ pc'[t] # pc[t]) =>
             /\ pc'[t].snap = agg.metrics_set_
             /\ Members(pc'[t].snap) = Members(agg.metrics_set_)
             /\ EachOnce(pc'[t].snap)
             /\ agg' = agg
        /\ (pc[t].op = "metrics" /\ agg' # agg) => pc'[t].snap = pc[t].snap ]_vars

\* C16 witness: a snapshot of two members is held while the index has been
\* emptied since.
C16_Witness ==
  \E t \in QueryThreads :
    /\ pc[t].op = "metrics" /\ Len(pc[t].snap) = 2
    /\ agg.metrics_set_ = <<>>

\* C17: sum() returns 0 for an empty index; when no member's value changes
\* during the call it returns the sum, in the unsigned arithmetic of the value
\* type, of the values the members of the index have at that time, each
\* member counted once and no other gauge counted.
C17_SumOfCurrentValues ==
  [][ \A t \in QueryThreads :
        Returned(t, "sum") =>
          /\ pc[t].seen = agg.metrics_set_ /\ EachOnce(pc[t].seen)
          /\ agg.metrics_set_ = <<>> => pc'[t].acc.total = 0
          /\ pc[t].stable =>
               pc'[t].acc.total = Wrap(SumValues(agg.metrics_set_)) ]_vars

\* C17 witness: sum() returned the value of its one member while a gauge that
\* is not a member (removed, or never added) has another value.
C17_Witness ==
  \E t \in QueryThreads :
    /\ pc[t].op = "sum" /\ pc[t].at = "done" /\ pc[t].stable
    /\ Len(pc[t].seen) = 1 /\ pc[t].acc.total = 1
    /\ \E g \in gauges : g \notin Members(pc[t].seen) /\ value[g] = UINT64_MAX

\* C18: min() returns UINT64_MAX for an empty index and max() returns 0; for
\* a non-empty index whose values do not change during the call min() returns
\* the smallest and max() the largest value of a member, so that the result
\* of min() is at most, and the result of max() at least, every member's
\* value.
C18_MinMax ==
  [][ \A t \in QueryThreads :
        /\ Returned(t, "min") =>
             /\ agg.metrics_set_ = <<>> => pc'[t].acc.result = UINT64_MAX
             /\ (pc[t].stable /\ agg.metrics_set_ # <<>>) =>
                  /\ pc'[t].acc.result = MinValue(agg.metrics_set_)
                  /\ pc'[t].acc.result <= MaxValue(agg.metrics_set_)
        /\ Returned(t, "max") =>
             /\ agg.metrics_set_ = <<>> => pc'[t].acc.result = 0
             /\ (pc[t].stable /\ agg.metrics_set_ # <<>>) =>
                  /\ pc'[t].acc.result = MaxValue(agg.metrics_set_)
                  /\ pc'[t].acc.result >= MinValue(agg.metrics_set_) ]_vars

\* C18 witness: min() returned 1 on an index of two members, the other of
\* which has the value UINT64_MAX.
C18_Witness ==
  \E t \in QueryThreads :
    /\ pc[t].op = "min" /\ pc[t].at = "done" /\ pc[t].stable
    /\ Len(pc[t].seen) = 2 /\ pc[t].acc.result = 1
    /\ UINT64_MAX \in ValuesOf(pc[t].seen)

\* C19: computeStats() makes one pass under one hold of the index's mutex_:
\* the member set does not change during the pass and out_count is the number
\* of members, each folded once into out_sum; when no value changes during
\* the call, out_sum, out_min and out_max are the sum, the smallest and the
\* largest member value (what sum(), min() and max() return) for a non-empty
\* index; for an empty index all four outputs are 0.
C19_ComputeStatsOnePass ==
  [][ \A t \in QueryThreads :
        /\ (pc[t].op = "computeStats" /\ pc[t].at = "iter") => agg' = agg
        /\ Returned(t, "computeStats") =>
             LET S == agg.metrics_set_
                 out == pc'[t].acc
             IN /\ pc[t].seen = S /\ EachOnce(S)
                /\ out.out_count = Len(S)
                /\ S = <<>> =>
                     /\ out.out_sum = 0 /\ out.out_min = 0
                     /\ out.out_max = 0
                /\ (pc[t].stable /\ S # <<>>) =>
                     /\ out.out_sum = Wrap(SumValues(S))
                     /\ out.out_min = MinValue(S)
                     /\ out.out_max = MaxValue(S) ]_vars

\* C19 witness: computeStats() returned on an index of two members with the
\* values 1 and UINT64_MAX.
C19_Witness ==
  \E t \in QueryThreads :
    /\ pc[t].op = "computeStats" /\ pc[t].at = "done" /\ pc[t].stable
    /\ pc[t].acc.out_count = 2
    /\ pc[t].acc.out_min = 1 /\ pc[t].acc.out_max = UINT64_MAX

\* C20: aggregate(initial, fn), when no member's value changes during the
\* call, returns fn folded over the values of the members in the set's order,
\* each member once, starting from initial; it returns initial for an empty
\* index, and with initial 0 and fn addition it returns what sum() returns.
C20_AggregateFolds ==
  [][ \A t \in QueryThreads :
        Returned(t, "aggregate") =>
          /\ pc[t].seen = agg.metrics_set_ /\ EachOnce(pc[t].seen)
          /\ agg.metrics_set_ = <<>> => pc'[t].acc.result = pc[t].initial
          /\ pc[t].stable =>
               /\ pc'[t].acc.result =
                    FoldValues(pc[t].cb, pc[t].initial, agg.metrics_set_)
               /\ (pc[t].cb = "plus" /\ pc[t].initial = 0) =>
                    pc'[t].acc.result = Wrap(SumValues(agg.metrics_set_)) ]_vars

\* C20 witness: a fold that depends on the order returned on an index of two
\* members with different values, started from 1.
C20_Witness ==
  \E t \in QueryThreads :
    /\ pc[t].op = "aggregate" /\ pc[t].at = "done" /\ pc[t].stable
    /\ pc[t].cb = "shift" /\ pc[t].initial = 1
    /\ Len(pc[t].seen) = 2
    /\ value[pc[t].seen[1]] # value[pc[t].seen[2]]


\* ---- C23
Reverse(s) == [i \in 1..Len(s) |-> s[Len(s) + 1 - i]]
\* n = p followed by something / something followed by s.
BeginsWith(n, p) == \E k \in 0..Len(n) : n = p \o SubSeq(n, k + 1, Len(n))
FinishesWith(n, s) == \E k \in 0..Len(n) : n = SubSeq(n, 1, k) \o s
MatchedBy(type) == last.op = "matches" /\ last.matcher.type = type

\* C23: PrefixSuffix(p, s).matches(n) is true exactly when (p is empty or n
\* begins with p) and (s is empty or n ends with s), each test on the whole of
\* n; PrefixSuffix("", "") matches every name, the empty one too, and a name
\* shorter than a non-empty p or s is not matched.
C23_PrefixSuffixMatches ==
  MatchedBy("PrefixSuffix") =>
    LET p == last.matcher.prefix_
        s == last.matcher.suffix_
        n == last.name
    IN /\ last.ret = ((p = <<>> \/ BeginsWith(n, p)) /\
                      (s = <<>> \/ FinishesWith(n, s)))
       /\ (p = <<>> /\ s = <<>>) => last.ret
       /\ (p # <<>> /\ Len(n) < Len(p)) => ~last.ret
       /\ (s # <<>> /\ Len(n) < Len(s)) => ~last.ret

\* C23 witness: a name was matched in which the prefix and the suffix overlap.
C23_Witness ==
  /\ MatchedBy("PrefixSuffix") /\ last.ret
  /\ last.matcher.prefix_ # <<>> /\ last.matcher.suffix_ # <<>>
  /\ Len(last.name) < Len(last.matcher.prefix_) + Len(last.matcher.suffix_)

\* ---- C24
\* C24: Or(children).matches(n) is true exactly when some child matches n; it
\* is the same for the children in the opposite order, and false for every
\* name, the empty one too, when there is no child.
C24_OrMatchesAny ==
  MatchedBy("Or") =>
    LET ms == last.matcher.matchers_
    IN /\ last.ret = (\E i \in 1..Len(ms) : matches(ms[i], last.name))
       /\ last.ret = matches(OrIndexMatcher(Reverse(ms)), last.name)
       /\ ms = <<>> => ~last.ret

\* C24 witness: a name was matched that the first child rejects and the second
\* accepts.
C24_Witness ==
  /\ MatchedBy("Or") /\ last.ret
  /\ Len(last.matcher.matchers_) = 2
  /\ ~matches(last.matcher.matchers_[1], last.name)
  /\ matches(last.matcher.matchers_[2], last.name)

\* ---- C25
\* C25: for every matcher variant and name, matchesStatName on the encoded
\* name returns what matches returns on the decoded name, and tryAdd and
\* tryAddWithStatName of one metric return the same value and leave the index
\* with the same members.
C25_FastPathEquivalent ==
  /\ last.op = "matchesStatName" =>
       last.ret = matches(last.matcher, toString(last.encoded))
  /\ last.op = "matches" =>
       last.ret = matchesStatName(last.matcher, SplitFrom(last.name, 1, <<>>))
  /\ last.op = "tryAddWithStatName" /\ "matcher" \in DOMAIN last =>
       /\ last.ret = tryAddResult(StatsIndex(1, 1, last.matcher), last.metric)
       /\ last.index = tryAdd(StatsIndex(1, 1, last.matcher), last.metric)
  /\ last.op = "tryAdd" /\ "matcher" \in DOMAIN last =>
       /\ last.ret = tryAddWithStatNameResult(StatsIndex(1, 1, last.matcher),
                                              last.metric)
       /\ last.index = tryAddWithStatName(StatsIndex(1, 1, last.matcher), last.metric)

\* C25 witness: tryAddWithStatName has inserted a metric whose name has two
\* tokens into an index whose Or matcher holds a regex.
C25_Witness ==
  /\ last.op = "tryAddWithStatName" /\ "matcher" \in DOMAIN last
  /\ last.matcher.type = "Or" /\ last.ret
  /\ Len(statName(last.metric)) = 2
  /\ last.index.metrics_set_ = <<last.metric>>
  /\ \E i \in 1..Len(last.matcher.matchers_) :
       last.matcher.matchers_[i].type = "Regex"
\* ---- C26
\* C26: when clear() returns the index has no members, empty() is true and
\* size() is 0, whatever it held; empty() is true exactly when size() is 0 in
\* every index of every state; the cleared index is still registered with its
\* matcher, and a tryAdd right after the clear accepts a matching metric.
C26_ClearEmpties ==
  [][ /\ \A k \in Kinds, n \in IndexNames :
           PartitionNext(k)[n] # NoIndex =>
             (empty(PartitionNext(k)[n]) <=> size(PartitionNext(k)[n]) = 0)
      /\ last'.op = "clear" =>
           LET k == last'.kind
               n == last'.index
           IN /\ PartitionNext(k)[n] # NoIndex
              /\ MembersOf(PartitionNext(k), n) = {}
              /\ empty(PartitionNext(k)[n]) /\ size(PartitionNext(k)[n]) = 0
              /\ PartitionNext(k)[n].matcher_ = Partition(k)[n].matcher_
              /\ PartitionNext(k)[n].id = Partition(k)[n].id
              /\ UNCHANGED <<gauges, counters, panicked>>
      /\ (/\ last.op = "clear" /\ last'.op = "tryAdd"
          /\ last'.kind = last.kind /\ last'.index = last.index
          /\ matches(Partition(last.kind)[last.index].matcher_,
                     name(last'.metric))) =>
           /\ last'.ret = "true"
           /\ MembersOf(PartitionNext(last.kind), last.index) = {last'.metric}
    ]_vars

\* C26 witness: clear() has just emptied a gauge index that held members, and
\* the index is still registered.
C26_Witness ==
  /\ last.op = "clear" /\ last.changed = 1 /\ last.kind = "gauge"
  /\ gauge_indices_[last.index] # NoIndex
  /\ empty(gauge_indices_[last.index])
  /\ size(gauge_indices_[last.index]) = 0
\* ---- C21, C22: what the factory must do with a configuration
FactoryOps ==
  {"createIndicesFromConfig", "createIndicesFromConfigWithExisting"}
\* The partition a declaration names.
DeclKind(d) == IF d.metric_type = "GAUGE" THEN "gauge" ELSE "counter"
\* The four ways a declaration can be faulty.
ConfigError(d) ==
  \/ d.matcher_case = "MATCHER_NOT_SET"
  \/ /\ d.matcher_case = "kStringMatcher"
     /\ d.string_matcher.match_pattern_case = "MATCH_PATTERN_NOT_SET"
  \/ /\ d.matcher_case = "kStringMatcher"
     /\ d.string_matcher.match_pattern_case = "kSafeRegex"
     /\ ~parseStdRegex(d.string_matcher.value)
  \/ d.metric_type = "METRIC_TYPE_UNSPECIFIED"
\* No faulty declaration, no name declared twice for one kind, and no name
\* its partition already holds.
ValidConfig(cfg) ==
  /\ \A i \in 1..Len(cfg) :
       /\ ~ConfigError(cfg[i])
       /\ createMatcher(cfg[i]).status = "ok"
       /\ Partition(DeclKind(cfg[i]))[cfg[i].name] = NoIndex
  /\ \A i, j \in 1..Len(cfg) :
       (i # j /\ cfg[i].name = cfg[j].name) => DeclKind(cfg[i]) # DeclKind(cfg[j])
Declared(cfg, k) == {i \in 1..Len(cfg) : DeclKind(cfg[i]) = k}

\* C21: when a factory call comes to a faulty declaration (invalid regex,
\* matcher not set, string-matcher pattern not set, metric kind unspecified),
\* it ends there with a failure the caller can catch, the process goes on,
\* and no index is registered for that declaration.
C21_ConfigErrorsAreRecoverable ==
  [][ last'.op \in FactoryOps =>
        \A i \in 1..Len(last'.config) :
          (ConfigError(last'.config[i]) /\ (last'.at = 0 \/ last'.at >= i)) =>
            /\ last'.at = i
            /\ last'.ret = "throw"
            /\ ~panicked'
            /\ \A k \in Kinds :
                 PartitionNext(k)[last'.config[i].name] #
                   Partition(k)[last'.config[i].name] =>
                     \E j \in 1..(i - 1) :
                       /\ last'.config[j].name = last'.config[i].name
                       /\ DeclKind(last'.config[j]) = k ]_vars

\* C22: a factory call with a valid configuration returns, and then every
\* declaration has an index of its name in the partition of its kind that was
\* not there before, each partition's count has grown by the number of
\* declarations of its kind, every entry no declaration names is as it was,
\* and the empty configuration changes nothing.
C22_RegistersEachDeclaration ==
  [][ (last'.op \in FactoryOps /\ ValidConfig(last'.config)) =>
        LET cfg == last'.config
        IN /\ last'.ret = "void" /\ ~panicked'
           /\ \A i \in 1..Len(cfg) :
                /\ PartitionNext(DeclKind(cfg[i]))[cfg[i].name] # NoIndex
                /\ PartitionNext(DeclKind(cfg[i]))[cfg[i].name].name_ = cfg[i].name
           /\ \A k \in Kinds :
                /\ IndexCount(PartitionNext(k)) =
                     IndexCount(Partition(k)) + Cardinality(Declared(cfg, k))
                /\ \A n \in IndexNames :
                     (\A i \in Declared(cfg, k) : cfg[i].name # n) =>
                       PartitionNext(k)[n] = Partition(k)[n]
           /\ cfg = <<>> => UNCHANGED <<gauge_indices_, counter_indices_>> ]_vars

\* C22 witness: a configuration of a gauge declaration and a counter
\* declaration of one name has been registered, one index in each partition,
\* while the other name is free in both.
C22_Witness ==
  /\ last.op = "createIndicesFromConfig" /\ last.ret = "void"
  /\ Len(last.config) = 2
  /\ last.config[1].metric_type = "GAUGE"
  /\ last.config[2].metric_type = "COUNTER"
  /\ last.config[1].name = last.config[2].name
  /\ IndexCount(gauge_indices_) = 1 /\ IndexCount(counter_indices_) = 1
  /\ gauge_indices_[last.config[1].name] # NoIndex
  /\ counter_indices_[last.config[2].name] # NoIndex
\* ---- C27 .. C30: what IdleActivityMonitor must report
Updated == last.op = "updateResourceUsage"
\* Microseconds since the current run of below-threshold updates began.
IdleFor(r) == r.now - r.since
\* downstream + upstream as the code adds them.
Total(r) == Wrap(r.downstream + r.upstream)

\* C27: an update reports 1 exactly when its reading is below threshold, the
\* current idle period began at an earlier update, and that was at least
\* sustained_idle_duration ago; otherwise 0.  The first below-threshold update
\* of a period reports 0, and once 1 was reported every later update whose
\* reading is below threshold reports 1 as long as no reading in between was
\* at or above threshold.
C27_PressureWhenSustainedIdle ==
  [][ last'.op = "updateResourceUsage" =>
        /\ last'.resource_pressure_ \in {0, 1}
        /\ last'.resource_pressure_ = 1 <=>
             /\ last'.below_threshold /\ ~last'.first
             /\ IdleFor(last') >= monitor'.sustained_duration_ * 1000
        /\ last'.first => last'.resource_pressure_ = 0
        /\ (/\ PreviousBelow /\ last.resource_pressure_ = 1
            /\ last'.below_threshold) => last'.resource_pressure_ = 1 ]_vars

\* C27 witness: 1 was reported for an idle period that began after the
\* monitor was constructed and lasted longer than the duration.
C27_Witness ==
  /\ Updated /\ last.resource_pressure_ = 1
  /\ monitor.sustained_duration_ >= 1000
  /\ last.since > 0
  /\ IdleFor(last) > monitor.sustained_duration_ * 1000

\* C28: an update whose reading is not below threshold reports 0 and clears
\* idle_start_time_; the idle start is always the first below-threshold update
\* after the last such reading, so 1 is only reported a full duration after
\* it, in every idle period.
C28_ActivityResetsIdleTimer ==
  [][ last'.op = "updateResourceUsage" =>
        /\ ~last'.below_threshold =>
             /\ last'.resource_pressure_ = 0
             /\ monitor'.idle_start_time_ = <<>>
        /\ last'.below_threshold =>
             monitor'.idle_start_time_ = <<last'.since>>
        /\ last'.first => monitor'.idle_start_time_ = <<last'.now>>
        /\ last'.resource_pressure_ = 1 =>
             IdleFor(last') >= monitor'.sustained_duration_ * 1000 ]_vars

\* C28 witness: 1 is reported in an idle period that began after activity had
\* ended an earlier one.
C28_Witness ==
  /\ Updated /\ last.spiked /\ last.resource_pressure_ = 1
  /\ monitor.sustained_duration_ >= 1000
  /\ last.since > 0

C30_SeparateThresholds ==
  [][ /\ (last'.op = "IdleActivityMonitor" /\ monitor' # NoMonitor) =>
           /\ monitor'.downstream_threshold_ # <<>> <=>
                last'.config.downstream_requests_threshold > 0
           /\ monitor'.upstream_threshold_ # <<>> <=>
                last'.config.upstream_requests_threshold > 0
           /\ monitor'.downstream_threshold_ # <<>> =>
                monitor'.downstream_threshold_[1] =
                  last'.config.downstream_requests_threshold
           /\ monitor'.upstream_threshold_ # <<>> =>
                monitor'.upstream_threshold_[1] =
                  last'.config.upstream_requests_threshold
      /\ (last'.op = "updateResourceUsage" /\ monitor'.stats_reader_) =>
           last'.below_threshold =
             \/ Total(last') < monitor'.active_requests_threshold_
             \/ /\ monitor'.downstream_threshold_ # <<>>
                /\ last'.downstream < monitor'.downstream_threshold_[1]
             \/ /\ monitor'.upstream_threshold_ # <<>>
                /\ last'.upstream < monitor'.upstream_threshold_[1] ]_vars

\* C30 witness: a reading was idle by the downstream check alone: its total
\* is at the total threshold and the upstream check is disabled.
C30_Witness ==
  /\ Updated /\ monitor.stats_reader_ /\ last.below_threshold
  /\ Total(last) >= monitor.active_requests_threshold_
  /\ monitor.active_requests_threshold_ > 0
  /\ monitor.downstream_threshold_ # <<>>
  /\ last.downstream < monitor.downstream_threshold_[1]
  /\ monitor.upstream_threshold_ = <<>>

\* C37: registerGaugeIndex / registerCounterIndex, when it returns an index,
\* has created it with an empty member set, whatever metrics its matcher
\* accepts are alive in the base store; and a metric enters the member set of
\* an index that is already registered only by a creation notification or by
\* tryAdd / tryAddWithStatName called on the index.
PlainRegistrations == {"registerGaugeIndex", "registerCounterIndex"}
Joined(k, n) ==
  IF Exists(Partition(k), n) /\ Exists(PartitionNext(k), n)
  THEN MembersOf(PartitionNext(k), n) \ MembersOf(Partition(k), n) ELSE {}
C37_PlainRegistrationStartsEmpty ==
  [][ /\ (last'.op \in PlainRegistrations /\ last'.ret = "ref") =>
           /\ ~Exists(Partition(last'.kind), last'.index)
           /\ Exists(PartitionNext(last'.kind), last'.index)
           /\ empty(PartitionNext(last'.kind)[last'.index])
      /\ \A k \in Kinds, n \in IndexNames :
           Joined(k, n) # {} =>
             last'.op \in {"onGaugeCreated", "onCounterCreated", "tryAdd",
                           "tryAddWithStatName"} ]_vars

\* C37 witness: registerGaugeIndex has just returned an empty index although
\* two gauges its matcher accepts are alive in the base store.
C37_Witness ==
  /\ last.op = "registerGaugeIndex" /\ last.ret = "ref"
  /\ empty(gauge_indices_[last.index])
  /\ Cardinality({g \in gauges :
                    matches(gauge_indices_[last.index].matcher_, name(g))}) >= 2

\* C35: a factory call that fails with an exception the caller catches (the
\* process goes on, unlike after a PANIC) leaves both partitions exactly as
\* they were before the call: no declaration of the rejected configuration
\* stays registered.
C35_FactoryAllOrNothing ==
  [][ (last'.op \in FactoryOps /\ last'.ret = "throw") =>
        UNCHANGED <<gauge_indices_, counter_indices_>> ]_vars

BothReturned(t, u) ==
  /\ pc[t].op = "registerGaugeIndexWithExisting"
  /\ pc[t].at = "done" /\ pc[t].ret = "ref"
  /\ pc[u].op = "onGaugeCreated" /\ pc[u].at = "done"
  /\ pc[u].metric \in gauges
  /\ matches(pc[t].matcher, name(pc[u].metric))
C32_NoMetricMissedByBackfill ==
  \A t \in Threads : \A u \in Threads \ {t} :
    BothReturned(t, u) => pc[u].metric \in MembersOf(gauge_indices_, pc[t].index)

\* C32 witness: both have returned, the notification having run while the
\* registration was scanning the base store, and the gauge is a member.
C32_Witness ==
  \E t \in Threads : \E u \in Threads \ {t} :
    /\ BothReturned(t, u) /\ pc[u].raced
    /\ pc[u].metric \in MembersOf(gauge_indices_, pc[t].index)

\* C34: when average() returns and no gauge value changed while it summed,
\* the quotient it returns is the sum of the values of a set of gauges
\* divided by the size of that same set (0.0 for the empty set), as it must
\* be if the sum and the count are taken over one member set.
RECURSIVE SetSum(_)
SetSum(S) ==
  IF S = {} THEN 0
  ELSE LET g == CHOOSE x \in S : TRUE IN value[g] + SetSum(S \ {g})
C34_AverageOverOneMemberSet ==
  [][ \A t \in QueryThreads :
        (pc'[t] # pc[t] /\ pc'[t].cb = "average" /\ pc'[t].at = "done" /\
         pc'[t].stable) =>
          \E S \in SUBSET gauges :
            /\ pc'[t].acc.out_count = Cardinality(S)
            /\ pc'[t].acc.total = Wrap(SetSum(S)) ]_vars

\* C39: each downstreamActiveRequests() returns the value of
\* server.total_downstream_rq_active when that gauge is in the store at the
\* time of the call, and otherwise the sum of the per-listener downstream
\* gauges; likewise upstreamActiveRequests() with
\* server.total_upstream_rq_active and the per-cluster gauges.
C39_GlobalGaugeWheneverItExists ==
  [][ /\ last'.op = "downstreamActiveRequests" =>
           last'.ret = IF root_store[1] # <<>> THEN root_store[1][1]
                       ELSE downstreamActiveRequestsFallback
      /\ last'.op = "upstreamActiveRequests" =>
           last'.ret = IF root_store[2] # <<>> THEN root_store[2][1]
                       ELSE upstreamActiveRequestsFallback ]_vars

\* C38: the matcher createStringMatcher makes of `exact: s` accepts a name n
\* if and only if n = s, and the one it makes of `contains: s` accepts n if
\* and only if s occurs in n as a literal substring.
Occurs(v, n) ==
  \E i \in 1..(Len(n) + 1) :
    i + Len(v) - 1 <= Len(n) /\ SubSeq(n, i, i + Len(v) - 1) = v
C38_ExactAndContainsAreLiteral ==
  [][ last'.op = "createStringMatcher" =>
        /\ last'.config.match_pattern_case = "kExact" =>
             last'.ret = (last'.name = last'.config.value)
        /\ last'.config.match_pattern_case = "kContains" =>
             last'.ret = Occurs(last'.config.value, last'.name) ]_vars

\* C33: once onGaugeCreated(m) and onGaugeDeleted(m) have both returned, on
\* two threads, m is a member of every registered gauge index whose matcher
\* accepts it or of no gauge index at all.
NotifiedBoth(t, u) ==
  /\ pc[t].op = "onGaugeCreated" /\ pc[t].at = "done"
  /\ pc[u].op = "onGaugeDeleted" /\ pc[u].at \in {"release", "done"}
  /\ pc[u].metric = pc[t].metric
InEvery(m) ==
  \A n \in IndexNames :
    (Exists(gauge_indices_, n) /\ tryAddResult(gauge_indices_[n], m)) =>
      m \in MembersOf(gauge_indices_, n)
InNone(m) ==
  \A n \in IndexNames :
    Exists(gauge_indices_, n) => m \notin MembersOf(gauge_indices_, n)
C33_FanOutsDoNotInterleave ==
  \A t \in Threads : \A u \in Threads \ {t} :
    NotifiedBoth(t, u) => InEvery(pc[t].metric) \/ InNone(pc[t].metric)

\* C33 witness: the deletion was notified while the creation notification of
\* the same gauge was waiting, both have returned, and the gauge is a member
\* of both of two registered indices (the deletion's fan-out ran first).
C33_Witness ==
  \E t \in Threads : \E u \in Threads \ {t} :
    /\ NotifiedBoth(t, u) /\ pc[u].raced
    /\ \A n \in IndexNames :
         Exists(gauge_indices_, n) /\ pc[t].metric \in MembersOf(gauge_indices_, n)

\* C31: the registry never destroys a gauge index while a thread is inside
\* an operation on it: no step erases the entry of an index some forEach is
\* running on.
C31_IndexOutlivesOperations ==
  [][\A t \in Threads : \A n \in IndexNames :
       OnIndex(t, n) => Exists(gauge_indices_', n)]_vars

\* C40: forEachGaugeIndex calls fn once per registered index, with the name
\* it is registered under, holding mutex_; it returns at the first false
\* without a further call; while it iterates no index is registered or
\* removed, and its own steps leave the mapping and the member sets alone.
IteratingIndices(t) == pc[t].op = "forEachGaugeIndex" /\ pc[t].at = "each"
GaugeIndexNames == {n \in IndexNames : Exists(gauge_indices_, n)}
C40_IterationUnderRegistryLock ==
  [][\A t \in Threads :
       /\ IteratingIndices(t) =>
            /\ mutex_ = t
            /\ \A n \in IndexNames :
                 Exists(gauge_indices_', n) = Exists(gauge_indices_, n)
            /\ pc[t].index \notin pc[t].visited
            /\ Len(pc[t].seen) = Cardinality(pc[t].visited)
            /\ {pc[t].seen[i] : i \in 1..Len(pc[t].seen)} = pc[t].visited
            /\ \A n \in pc[t].visited : gauge_indices_[n].name_ = n
       /\ (IteratingIndices(t) /\ pc'[t] # pc[t]) =>
            /\ gauge_indices_' = gauge_indices_
            /\ pc'[t].at = "done" =>
                 /\ mutex_' = 0
                 /\ IF pc'[t].ret = "stopped"
                    THEN pc'[t].seen[Len(pc'[t].seen)] = pc[t].index
                    ELSE pc'[t].visited = GaugeIndexNames]_vars

\* C40 witness: an iteration has called fn on one of two registered indices
\* while another thread waits for mutex_ to register.
C40_Witness ==
  \E t \in Threads : \E u \in Threads \ {t} :
    /\ IteratingIndices(t) /\ Len(pc[t].seen) = 1 /\ Cardinality(GaugeIndexNames) = 2
    /\ pc[u].op = "registerGaugeIndex" /\ pc[u].at = "lock"

====
